---- MODULE Spec2Model ----
(***************************************************************************)
(* Record Store of the Q1 2026 supply-chain goal tracker                   *)
(* (src/data_manager.py, DataManager and the id generators).               *)
(*                                                                         *)
(* Python values are tagged records, so that a date, a datetime and the    *)
(* string that spells one are three different values.  A Python str is a   *)
(* sequence of tokens: ISO text is spelled character by character, free    *)
(* text is one token per word.                                             *)
(***************************************************************************)
EXTENDS Integers, Sequences, FiniteSets, TLC

VARIABLES
    file,       \* the backing file data/projects.json
    projects,   \* the caller's in-memory project list (a Python list value)
    clock,      \* microseconds elapsed on the wall clock since Epoch
    last,       \* the last operation: its name, inputs, pre-state, result
    prev        \* the operation before it

vars == <<file, projects, clock, last, prev>>

-----------------------------------------------------------------------------
(* Bounds of the model *)

MaxProjects == 2
MaxClock == 1
MaxIdClock == 4

-----------------------------------------------------------------------------
(* Python values *)

PNone == [t |-> "none"]
PBool(b) == [t |-> "bool", v |-> b]
PInt(n) == [t |-> "int", v |-> n]
PStr(s) == [t |-> "str", v |-> s]
PList(s) == [t |-> "list", v |-> s]
PDict(f) == [t |-> "dict", v |-> f]
PSet(s) == [t |-> "set", v |-> s]
PDate(y, m, d) == [t |-> "date", y |-> y, m |-> m, d |-> d]
PDateTime(y, m, d, hh, mm, ss, us) ==
    [t |-> "datetime", y |-> y, m |-> m, d |-> d,
     hh |-> hh, mm |-> mm, ss |-> ss, us |-> us]

\* free text: one token
Txt(w) == PStr(<<w>>)

\* dict.get(k) with the default None
DictGet(d, k) == IF k \in DOMAIN d.v THEN d.v[k] ELSE PNone

\* d[k] = val
DictSet(d, k, val) ==
    PDict([x \in DOMAIN d.v \cup {k} |-> IF x = k THEN val ELSE d.v[x]])

\* d.update(u)
DictUpdate(d, u) ==
    PDict([x \in DOMAIN d.v \cup DOMAIN u.v |->
              IF x \in DOMAIN u.v THEN u.v[x] ELSE d.v[x]])

-----------------------------------------------------------------------------
(* Decimal text *)

Digits == <<"0", "1", "2", "3", "4", "5", "6", "7", "8", "9">>

DigitChar(n) == Digits[n + 1]

IsDigit(c) == \E i \in 1..10 : Digits[i] = c

DigitVal(c) == (CHOOSE i \in 1..10 : Digits[i] = c) - 1

AllDigits(s) == \A i \in 1..Len(s) : IsDigit(s[i])

\* n printed in exactly w digits, zero padded (the %0wd of strftime/isoformat)
RECURSIVE Pad(_, _)
Pad(n, w) == IF w = 0 THEN <<>>
             ELSE Pad(n \div 10, w - 1) \o <<DigitChar(n % 10)>>

\* int(s) of a digit string
RECURSIVE ParseNat(_)
ParseNat(s) == IF s = <<>> THEN 0
               ELSE 10 * ParseNat(SubSeq(s, 1, Len(s) - 1)) + DigitVal(s[Len(s)])

-----------------------------------------------------------------------------
(* Calendar (datetime module) *)

IsLeap(y) == (y % 4 = 0 /\ y % 100 # 0) \/ y % 400 = 0

DaysInMonth(y, m) ==
    IF m = 2 THEN (IF IsLeap(y) THEN 29 ELSE 28)
    ELSE IF m \in {4, 6, 9, 11} THEN 30 ELSE 31

\* date.isoformat(): YYYY-MM-DD
DateIso(o) == Pad(o.y, 4) \o <<"-">> \o Pad(o.m, 2) \o <<"-">> \o Pad(o.d, 2)

\* time part of datetime.isoformat(): HH:MM:SS, and .ffffff unless it is zero
TimeIso(o) ==
    Pad(o.hh, 2) \o <<":">> \o Pad(o.mm, 2) \o <<":">> \o Pad(o.ss, 2)
    \o (IF o.us = 0 THEN <<>> ELSE <<".">> \o Pad(o.us, 6))

\* obj.isoformat() of a date or a datetime
isoformat(o) ==
    IF o.t = "date" THEN DateIso(o) ELSE DateIso(o) \o <<"T">> \o TimeIso(o)

\* datetime.strftime('%Y%m%d%H%M%S%f')
strftime(o) ==
    Pad(o.y, 4) \o Pad(o.m, 2) \o Pad(o.d, 2)
    \o Pad(o.hh, 2) \o Pad(o.mm, 2) \o Pad(o.ss, 2) \o Pad(o.us, 6)

\* the YYYY-MM-DD prefix of s is a calendar date
IsoDateOk(s) ==
    /\ Len(s) >= 10
    /\ AllDigits(SubSeq(s, 1, 4)) /\ s[5] = "-"
    /\ AllDigits(SubSeq(s, 6, 7)) /\ s[8] = "-"
    /\ AllDigits(SubSeq(s, 9, 10))
    /\ ParseNat(SubSeq(s, 1, 4)) >= 1
    /\ ParseNat(SubSeq(s, 6, 7)) \in 1..12
    /\ ParseNat(SubSeq(s, 9, 10)) \in
           1..DaysInMonth(ParseNat(SubSeq(s, 1, 4)), ParseNat(SubSeq(s, 6, 7)))

\* s[12..19] is HH:MM:SS (any one character separates date and time)
IsoTimeOk(s) ==
    /\ Len(s) >= 19
    /\ AllDigits(SubSeq(s, 12, 13)) /\ s[14] = ":"
    /\ AllDigits(SubSeq(s, 15, 16)) /\ s[17] = ":"
    /\ AllDigits(SubSeq(s, 18, 19))
    /\ ParseNat(SubSeq(s, 12, 13)) < 24
    /\ ParseNat(SubSeq(s, 15, 16)) < 60
    /\ ParseNat(SubSeq(s, 18, 19)) < 60

\* s[20..] is .fff or .ffffff
IsoFracOk(s) ==
    /\ Len(s) \in {23, 26}
    /\ s[20] = "."
    /\ AllDigits(SubSeq(s, 21, Len(s)))

\* datetime.fromisoformat(s): ok = FALSE stands for ValueError
fromisoformat(s) ==
    IF Len(s) = 10 /\ IsoDateOk(s)
    THEN [ok |-> TRUE,
          val |-> PDateTime(ParseNat(SubSeq(s, 1, 4)), ParseNat(SubSeq(s, 6, 7)),
                            ParseNat(SubSeq(s, 9, 10)), 0, 0, 0, 0)]
    ELSE IF Len(s) = 19 /\ IsoDateOk(s) /\ IsoTimeOk(s)
    THEN [ok |-> TRUE,
          val |-> PDateTime(ParseNat(SubSeq(s, 1, 4)), ParseNat(SubSeq(s, 6, 7)),
                            ParseNat(SubSeq(s, 9, 10)), ParseNat(SubSeq(s, 12, 13)),
                            ParseNat(SubSeq(s, 15, 16)), ParseNat(SubSeq(s, 18, 19)), 0)]
    ELSE IF IsoDateOk(s) /\ IsoTimeOk(s) /\ IsoFracOk(s)
    THEN [ok |-> TRUE,
          val |-> PDateTime(ParseNat(SubSeq(s, 1, 4)), ParseNat(SubSeq(s, 6, 7)),
                            ParseNat(SubSeq(s, 9, 10)), ParseNat(SubSeq(s, 12, 13)),
                            ParseNat(SubSeq(s, 15, 16)), ParseNat(SubSeq(s, 18, 19)),
                            IF Len(s) = 26 THEN ParseNat(SubSeq(s, 21, 26))
                            ELSE 1000 * ParseNat(SubSeq(s, 21, 23)))]
    ELSE [ok |-> FALSE, val |-> PNone]

\* datetime.date()
DateOf(o) == PDate(o.y, o.m, o.d)

-----------------------------------------------------------------------------
(* Wall clock: datetime.now() *)

\* the wall clock at clock = 0: one microsecond before midnight, so that the
\* first tick crosses a second and a day, to a reading whose microsecond is zero
Epoch == PDateTime(2026, 1, 5, 23, 59, 59, 999999)

NextDay(o) ==
    IF o.d < DaysInMonth(o.y, o.m) THEN PDate(o.y, o.m, o.d + 1)
    ELSE IF o.m < 12 THEN PDate(o.y, o.m + 1, 1)
    ELSE PDate(o.y + 1, 1, 1)

RECURSIVE AddDays(_, _)
AddDays(o, n) == IF n = 0 THEN o ELSE AddDays(NextDay(o), n - 1)

\* datetime.now() when the clock reads c
Now(c) ==
    LET us   == (Epoch.us + c) % 1000000
        secs == Epoch.hh * 3600 + Epoch.mm * 60 + Epoch.ss
                + (Epoch.us + c) \div 1000000
        day  == AddDays(DateOf(Epoch), secs \div 86400)
        sod  == secs % 86400
    IN  PDateTime(day.y, day.m, day.d,
                  sod \div 3600, (sod \div 60) % 60, sod % 60, us)

\* datetime.now().isoformat()
NowIso(c) == PStr(isoformat(Now(c)))

-----------------------------------------------------------------------------
(* DataManager: date (de)serialization *)

\* load_projects: the keys whose string values are parsed as dates
date_fields == {"start_date", "due_date", "timestamp", "created_at", "updated_at"}

RECURSIVE _serialize_dates(_)
_serialize_dates(obj) ==
    IF obj.t \in {"date", "datetime"} THEN PStr(isoformat(obj))
    ELSE IF obj.t = "dict"
    THEN PDict([k \in DOMAIN obj.v |-> _serialize_dates(obj.v[k])])
    ELSE IF obj.t = "list"
    THEN PList([i \in 1..Len(obj.v) |-> _serialize_dates(obj.v[i])])
    ELSE obj

\* _deserialize_dates without the test k in date_fields: every string value
\* of a dict that parses becomes a date
RECURSIVE _deserialize_dates_any_key(_, _)
_deserialize_dates_any_key(obj, fields) ==
    IF obj.t = "dict"
    THEN PDict([k \in DOMAIN obj.v |->
             IF obj.v[k].t = "str"
             THEN (IF fromisoformat(obj.v[k].v).ok
                   THEN DateOf(fromisoformat(obj.v[k].v).val)
                   ELSE obj.v[k])
             ELSE _deserialize_dates_any_key(obj.v[k], fields)])
    ELSE IF obj.t = "list"
    THEN PList([i \in 1..Len(obj.v) |-> _deserialize_dates_any_key(obj.v[i], fields)])
    ELSE obj

RECURSIVE _deserialize_dates(_, _)
_deserialize_dates(obj, fields) ==
    IF obj.t = "dict"
    THEN PDict([k \in DOMAIN obj.v |->
             IF k \in fields /\ obj.v[k].t = "str"
             THEN (IF fromisoformat(obj.v[k].v).ok
                   THEN DateOf(fromisoformat(obj.v[k].v).val)
                   ELSE obj.v[k])
             ELSE _deserialize_dates(obj.v[k], fields)])
    ELSE IF obj.t = "list"
    THEN PList([i \in 1..Len(obj.v) |-> _deserialize_dates(obj.v[i], fields)])
    ELSE obj

-----------------------------------------------------------------------------
(* The backing file and the json module *)

FileAbsent == [kind |-> "absent"]
\* the file holds the JSON document of doc
FileJson(doc) == [kind |-> "json", doc |-> doc]
\* the file holds bytes that are no JSON document (empty, truncated, garbage)
FileCorrupt == [kind |-> "corrupt"]

\* json.dump accepts obj (it raises TypeError on a date, a datetime or a set)
RECURSIVE JsonSerializable(_)
JsonSerializable(obj) ==
    IF obj.t \in {"none", "bool", "int", "str"} THEN TRUE
    ELSE IF obj.t = "dict" THEN \A k \in DOMAIN obj.v : JsonSerializable(obj.v[k])
    ELSE IF obj.t = "list" THEN \A i \in 1..Len(obj.v) : JsonSerializable(obj.v[i])
    ELSE FALSE

\* faults of the file system during one call
SaveFaults == {"none", "open", "write"}
LoadFaults == {"none", "open"}

\* the try block of save_projects: the exception it ends with, and the file.
\* open(..., 'w') truncates the file, and json.dump writes as it encodes, so
\* an error after the open leaves bytes that are no JSON document
save_try(ps, f, fault) ==
    LET serialized == _serialize_dates(ps)
    IN  IF fault = "open" THEN [exc |-> "OSError", file |-> f]
        ELSE IF ~JsonSerializable(serialized)
        THEN [exc |-> "TypeError", file |-> FileCorrupt]
        ELSE IF fault = "write" THEN [exc |-> "OSError", file |-> FileCorrupt]
        ELSE [exc |-> "none", file |-> FileJson(serialized)]

\* save_projects without its try/except: the error reaches the caller
save_projects_uncaught(ps, f, fault) ==
    LET r == save_try(ps, f, fault)
    IN  IF r.exc = "none"
        THEN [ret |-> PBool(TRUE), raised |-> "none", file |-> r.file]
        ELSE [ret |-> PNone, raised |-> r.exc, file |-> r.file]

\* DataManager.save_projects: except Exception -> print, return False
save_projects(ps, f, fault) ==
    LET r == save_try(ps, f, fault)
    IN  IF r.exc = "none"
        THEN [ret |-> PBool(TRUE), raised |-> "none", file |-> r.file]
        ELSE [ret |-> PBool(FALSE), raised |-> "none", file |-> r.file]

\* the try block of load_projects
load_try(f, fault) ==
    IF fault = "open" THEN [exc |-> "OSError", ret |-> PNone]
    ELSE IF f.kind = "corrupt" THEN [exc |-> "JSONDecodeError", ret |-> PNone]
    ELSE [exc |-> "none", ret |-> _deserialize_dates(f.doc, date_fields)]

\* load_projects without the os.path.exists test and with open() outside the
\* try: a missing file raises
load_projects_no_exists_test(f, fault) ==
    IF f.kind = "absent" THEN [ret |-> PNone, raised |-> "FileNotFoundError"]
    ELSE LET r == load_try(f, fault)
         IN  IF r.exc = "none" THEN [ret |-> r.ret, raised |-> "none"]
             ELSE [ret |-> PList(<<>>), raised |-> "none"]

\* load_projects with except OSError in place of except Exception
load_projects_except_oserror(f, fault) ==
    IF f.kind = "absent" THEN [ret |-> PList(<<>>), raised |-> "none"]
    ELSE LET r == load_try(f, fault)
         IN  IF r.exc = "none" THEN [ret |-> r.ret, raised |-> "none"]
             ELSE IF r.exc = "OSError" THEN [ret |-> PList(<<>>), raised |-> "none"]
             ELSE [ret |-> PNone, raised |-> r.exc]

\* DataManager.load_projects
load_projects(f, fault) ==
    IF f.kind = "absent" THEN [ret |-> PList(<<>>), raised |-> "none"]
    ELSE LET r == load_try(f, fault)
         IN  IF r.exc = "none" THEN [ret |-> r.ret, raised |-> "none"]
             ELSE [ret |-> PList(<<>>), raised |-> "none"]

-----------------------------------------------------------------------------
(* DataManager: operations on the caller's list *)

\* for project in projects: if project.get('id') == project_id: return project
RECURSIVE get_project_scan(_, _, _)
get_project_scan(ps, i, project_id) ==
    IF i > Len(ps.v) THEN PNone
    ELSE IF DictGet(ps.v[i], "id") = project_id THEN ps.v[i]
    ELSE get_project_scan(ps, i + 1, project_id)

\* get_project_by_id without the early return: the last match wins
RECURSIVE get_project_by_id_last(_, _)
get_project_by_id_last(ps, project_id) ==
    IF Len(ps.v) = 0 THEN PNone
    ELSE IF DictGet(ps.v[Len(ps.v)], "id") = project_id THEN ps.v[Len(ps.v)]
    ELSE get_project_by_id_last(PList(SubSeq(ps.v, 1, Len(ps.v) - 1)), project_id)

\* DataManager.get_project_by_id
get_project_by_id(ps, project_id) == get_project_scan(ps, 1, project_id)

\* the loop of update_project from index i on; c is the clock at datetime.now()
RECURSIVE update_project_scan(_, _, _, _, _)
update_project_scan(ps, i, project_id, updates, c) ==
    IF i > Len(ps.v) THEN ps
    ELSE IF DictGet(ps.v[i], "id") = project_id
    THEN PList([ps.v EXCEPT ![i] =
                    DictSet(DictUpdate(ps.v[i], updates), "updated_at", NowIso(c))])
    ELSE update_project_scan(ps, i + 1, project_id, updates, c)

\* update_project with the updated_at stamp outside the if: every project
\* the loop visits is stamped
update_project_stamp_visited(ps, project_id, updates, c) ==
    PList([i \in 1..Len(ps.v) |->
        IF \E j \in 1..(i - 1) : DictGet(ps.v[j], "id") = project_id
        THEN ps.v[i]
        ELSE DictSet(IF DictGet(ps.v[i], "id") = project_id
                     THEN DictUpdate(ps.v[i], updates) ELSE ps.v[i],
                     "updated_at", NowIso(c))])

\* update_project without the break: every match is updated
update_project_no_break(ps, project_id, updates, c) ==
    PList([i \in 1..Len(ps.v) |->
        IF DictGet(ps.v[i], "id") = project_id
        THEN DictSet(DictUpdate(ps.v[i], updates), "updated_at", NowIso(c))
        ELSE ps.v[i]])

\* DataManager.update_project
update_project(ps, project_id, updates, c) ==
    update_project_scan(ps, 1, project_id, updates, c)

\* add_project with insert(0, ...) in place of append
add_project_insert_first(ps, new_project, c1, c2) ==
    PList(<<DictSet(DictSet(new_project, "created_at", NowIso(c1)),
                    "updated_at", NowIso(c2))>> \o ps.v)

\* DataManager.add_project; c1 and c2 are the clock at its two datetime.now()
add_project(ps, new_project, c1, c2) ==
    PList(Append(ps.v, DictSet(DictSet(new_project, "created_at", NowIso(c1)),
                               "updated_at", NowIso(c2))))

\* delete_project as list.remove of the first match only
delete_project_first_only(ps, project_id) ==
    IF \E i \in 1..Len(ps.v) : DictGet(ps.v[i], "id") = project_id
    THEN LET i == CHOOSE i \in 1..Len(ps.v) :
                      /\ DictGet(ps.v[i], "id") = project_id
                      /\ \A j \in 1..(i - 1) : DictGet(ps.v[j], "id") # project_id
         IN  PList(SubSeq(ps.v, 1, i - 1) \o SubSeq(ps.v, i + 1, Len(ps.v)))
    ELSE ps

\* DataManager.delete_project
delete_project(ps, project_id) ==
    PList(SelectSeq(ps.v, LAMBDA p : DictGet(p, "id") # project_id))

\* generate_project_id / generate_subtask_id when the clock reads c
generate_project_id(c) == PStr(<<"p", "r", "o", "j", "_">> \o strftime(Now(c)))

generate_subtask_id(c) == PStr(<<"t", "a", "s", "k", "_">> \o strftime(Now(c)))

-----------------------------------------------------------------------------
(* Inputs: the project lists a caller may hold, the files it may find *)

\* the project of the spec's scenario: no date at all
pScenario ==
    PDict([id |-> Txt("p1"), objective_number |-> PInt(1),
           subtasks |-> PList(<<PDict([id |-> Txt("s1"),
                                       completed |-> PBool(FALSE)])>>)])

\* calendar dates under start_date / due_date, also in a subtask
pDates ==
    PDict([id |-> Txt("p2"),
           start_date |-> PDate(2026, 1, 6), due_date |-> PDate(2026, 3, 21),
           subtasks |-> PList(<<PDict([id |-> Txt("s2"),
                                       due_date |-> PDate(2026, 1, 24),
                                       completed |-> PBool(TRUE)])>>)])

\* timestamps: a datetime in a note, and the ISO string that update_project
\* and add_project store under updated_at
pStamped ==
    PDict([id |-> Txt("p3"), due_date |-> PDate(2026, 3, 28),
           notes |-> PList(<<PDict([text |-> Txt("kickoff"),
                                    timestamp |-> PDateTime(2026, 1, 5, 10, 30, 0, 0)])>>),
           updated_at |-> PStr(isoformat(PDateTime(2026, 1, 5, 10, 30, 0, 123456)))])

\* as get_default_projects writes them: dates spelled as strings; and a due
\* date nobody can parse
pDefault ==
    PDict([id |-> Txt("proj_001"), status |-> Txt("Not Started"),
           start_date |-> PStr(isoformat(PDate(2026, 1, 6))),
           due_date |-> Txt("TBD")])

\* a value json.dump refuses
pSet ==
    PDict([id |-> Txt("p5"), team_members |-> PSet({Txt("Greg Furner")})])

ProjectPool == {pScenario, pDates, pStamped, pDefault, pSet}

SeqsUpTo(S, n) == UNION {[1..k -> S] : k \in 0..n}

ProjectLists == {PList(q) : q \in SeqsUpTo(ProjectPool, MaxProjects)}

\* a file somebody edited by hand: 30 February, a timestamp, and a name
\* that reads like a date
ExternalDoc ==
    PList(<<PDict([id |-> Txt("p9"),
                   name |-> PStr(DateIso(PDate(2026, 1, 6))),
                   due_date |-> PStr(DateIso(PDate(2026, 2, 30))),
                   created_at |-> PStr(isoformat(PDateTime(2026, 1, 5, 8, 0, 0, 0)))])>>)

ExternalFiles == {FileCorrupt, FileJson(ExternalDoc)}

-----------------------------------------------------------------------------
(* Persistence: the caller saves and loads, the file system may fail, and    *)
(* the file may be changed or removed behind the program's back              *)

\* what is remembered of the operation before the last one
Brief(l) == IF l.op = "save"
            THEN [op |-> "save", arg |-> l.arg, ret |-> l.ret, fault |-> l.fault]
            ELSE [op |-> l.op]

Init ==
    /\ file = FileAbsent
    /\ projects \in ProjectLists
    /\ clock = 0
    /\ last = [op |-> "init"]
    /\ prev = [op |-> "init"]

Save(fault) ==
    LET r == save_projects(projects, file, fault)
    IN  /\ file' = r.file
        /\ last' = [op |-> "save", arg |-> projects, fault |-> fault,
                    preFile |-> file, ret |-> r.ret, raised |-> r.raised]
        /\ prev' = Brief(last)
        /\ UNCHANGED <<projects, clock>>

\* a load that removes a file it could not read or parse
LoadRemovingBadFile(fault) ==
    LET r == load_projects(file, fault)
        t == load_try(file, fault)
    IN  /\ projects' = IF r.raised = "none" THEN r.ret ELSE projects
        /\ file' = IF file.kind # "absent" /\ t.exc # "none"
                   THEN FileAbsent ELSE file
        /\ last' = [op |-> "load", fault |-> fault, preFile |-> file,
                    ret |-> r.ret, raised |-> r.raised]
        /\ prev' = Brief(last)
        /\ UNCHANGED clock

Load(fault) ==
    LET r == load_projects(file, fault)
    IN  /\ projects' = IF r.raised = "none" THEN r.ret ELSE projects
        /\ last' = [op |-> "load", fault |-> fault, preFile |-> file,
                    ret |-> r.ret, raised |-> r.raised]
        /\ prev' = Brief(last)
        /\ UNCHANGED <<file, clock>>

ExternalWrite(f) ==
    /\ file # f
    /\ file' = f
    /\ last' = [op |-> "external"]
    /\ prev' = Brief(last)
    /\ UNCHANGED <<projects, clock>>

RemoveFile ==
    /\ file # FileAbsent
    /\ file' = FileAbsent
    /\ last' = [op |-> "external"]
    /\ prev' = Brief(last)
    /\ UNCHANGED <<projects, clock>>

Next ==
    \/ \E fault \in SaveFaults : Save(fault)
    \/ \E fault \in LoadFaults : Load(fault)
    \/ \E f \in ExternalFiles : ExternalWrite(f)
    \/ RemoveFile

Spec == Init /\ [][Next]_vars

-----------------------------------------------------------------------------
(* The store in memory: a caller grows, edits and queries its list *)

\* projects a caller adds: two share an id (one of them carries stale stamps),
\* one has no id at all
nA == PDict([id |-> Txt("p1"), name |-> Txt("A"), status |-> Txt("Not Started")])
nB == PDict([id |-> Txt("p1"), name |-> Txt("B"),
             created_at |-> Txt("stale"), updated_at |-> Txt("stale")])
nNoId == PDict([name |-> Txt("D")])

NewProjects == {nA, nB, nNoId}

\* field updates: one field; and one that carries id and updated_at too
Updates ==
    {PDict([status |-> Txt("Completed")]),
     PDict([id |-> Txt("p2"), status |-> Txt("On Hold"),
            updated_at |-> Txt("never")])}

\* p2 is the id of no project until an update renames one
ProjectIds == {Txt("p1"), Txt("p2")}

InitStore ==
    /\ file = FileAbsent
    /\ projects = PList(<<>>)
    /\ clock = 0
    /\ last = [op |-> "init"]
    /\ prev = [op |-> "init"]

\* time passes
Tick ==
    /\ clock < MaxClock
    /\ clock' = clock + 1
    /\ UNCHANGED <<file, projects, last, prev>>

\* dt: the time that passes between the two datetime.now() of add_project
AddProject(new_project, dt) ==
    /\ Len(projects.v) < MaxProjects
    /\ clock + dt <= MaxClock
    /\ projects' = add_project(projects, new_project, clock, clock + dt)
    /\ clock' = clock + dt
    /\ last' = [op |-> "add", pre |-> projects, new |-> new_project,
                c1 |-> clock, c2 |-> clock + dt]
    /\ UNCHANGED <<file, prev>>

UpdateProject(project_id, updates) ==
    /\ projects' = update_project(projects, project_id, updates, clock)
    /\ last' = [op |-> "update", pre |-> projects, id |-> project_id,
                updates |-> updates, c |-> clock]
    /\ UNCHANGED <<file, clock, prev>>

\* projects = dm.delete_project(projects, project_id)
DeleteProject(project_id) ==
    /\ projects' = delete_project(projects, project_id)
    /\ last' = [op |-> "delete", pre |-> projects, id |-> project_id]
    /\ UNCHANGED <<file, clock, prev>>

GetProjectById(project_id) ==
    /\ last' = [op |-> "get", pre |-> projects, id |-> project_id,
                ret |-> get_project_by_id(projects, project_id)]
    /\ UNCHANGED <<file, projects, clock, prev>>

NextStore ==
    \/ Tick
    \/ \E n \in NewProjects, dt \in {0, 1} : AddProject(n, dt)
    \/ \E i \in ProjectIds, u \in Updates : UpdateProject(i, u)
    \/ \E i \in ProjectIds : DeleteProject(i)
    \/ \E i \in ProjectIds : GetProjectById(i)

SpecStore == InitStore /\ [][NextStore]_vars

-----------------------------------------------------------------------------
(* Id generation against the wall clock *)

\* time passes between two calls, or does not
IdTick ==
    /\ clock < MaxIdClock
    /\ clock' = clock + 1
    /\ UNCHANGED <<file, projects, last, prev>>

GenerateProjectId ==
    /\ last' = [op |-> "generate_project_id", c |-> clock,
                ret |-> generate_project_id(clock)]
    /\ prev' = last
    /\ UNCHANGED <<file, projects, clock>>

GenerateSubtaskId ==
    /\ last' = [op |-> "generate_subtask_id", c |-> clock,
                ret |-> generate_subtask_id(clock)]
    /\ prev' = last
    /\ UNCHANGED <<file, projects, clock>>

NextIds == IdTick \/ GenerateProjectId \/ GenerateSubtaskId

SpecIds == InitStore /\ [][NextIds]_vars

-----------------------------------------------------------------------------
(* Claims about persistence, checked under Spec *)

EmptyList == PList(<<>>)

\* obj holds dates only where C1 puts them: dates under start_date and
\* due_date; dates, datetimes or ISO strings under the three timestamp keys
RECURSIVE DatesWhereClaimed(_)
DatesWhereClaimed(obj) ==
    IF obj.t = "dict"
    THEN \A k \in DOMAIN obj.v :
            IF k \in {"start_date", "due_date"} THEN obj.v[k].t = "date"
            ELSE IF k \in {"timestamp", "created_at", "updated_at"}
            THEN \/ obj.v[k].t \in {"date", "datetime"}
                 \/ obj.v[k].t = "str" /\ fromisoformat(obj.v[k].v).ok
            ELSE DatesWhereClaimed(obj.v[k])
    ELSE IF obj.t = "list"
    THEN \A i \in 1..Len(obj.v) : DatesWhereClaimed(obj.v[i])
    ELSE obj.t \in {"none", "bool", "int", "str"}

\* a load with no fault, right after a successful save of such a list
RoundTrip ==
    /\ last.op = "load" /\ last.fault = "none"
    /\ prev.op = "save" /\ prev.ret = PBool(TRUE)
    /\ DatesWhereClaimed(prev.arg)

(* C1: save_projects(P) followed by load_projects() returns a list equal to *)
(* P, every date and timestamp field carrying the value it had in P.        *)
C1_RoundTripLaw == RoundTrip => last.ret = prev.arg

\* obj with every value under a date key replaced by its calendar day
RECURSIVE CalendarView(_)
CalendarView(obj) ==
    IF obj.t = "dict"
    THEN PDict([k \in DOMAIN obj.v |->
             IF k \in date_fields /\ obj.v[k].t \in {"date", "datetime"}
             THEN DateOf(obj.v[k])
             ELSE IF k \in date_fields /\ obj.v[k].t = "str"
                     /\ fromisoformat(obj.v[k].v).ok
             THEN DateOf(fromisoformat(obj.v[k].v).val)
             ELSE CalendarView(obj.v[k])])
    ELSE IF obj.t = "list"
    THEN PList([i \in 1..Len(obj.v) |-> CalendarView(obj.v[i])])
    ELSE obj

\* what the round trip does keep: the shape, every other field, and the
\* calendar day of every date and timestamp (not its time of day, nor
\* whether it was a date, a datetime or a string)
RoundTripKeepsCalendarDay ==
    RoundTrip => /\ CalendarView(last.ret) = CalendarView(prev.arg)
                 /\ last.ret = CalendarView(last.ret)

(* C2: load_projects() returns an empty list, and raises nothing, whenever  *)
(* the backing file does not exist.                                         *)
C2_LoadMissingFile ==
    (last.op = "load" /\ last.preFile = FileAbsent)
        => (last.ret = EmptyList /\ last.raised = "none")

C2_Witness ==
    /\ last.op = "load" /\ last.preFile = FileAbsent
    /\ prev.op = "external"

(* C3: load_projects() on a file that holds no valid JSON, or that cannot   *)
(* be read, returns an empty list and raises nothing, and leaves the file   *)
(* as it was.                                                               *)
C3_LoadCorruptFile ==
    (/\ last.op = "load"
     /\ \/ last.preFile = FileCorrupt
        \/ last.preFile # FileAbsent /\ last.fault = "open")
        => (last.ret = EmptyList /\ last.raised = "none" /\ file = last.preFile)

C3_Witness ==
    /\ last.op = "load" /\ last.preFile = FileCorrupt /\ last.fault = "none"
    /\ projects = EmptyList

\* an I/O or serialization error happened during the save l
SaveError(l) ==
    l.fault # "none" \/ ~JsonSerializable(_serialize_dates(l.arg))

(* C4: save_projects(P) never raises: it returns False on any I/O or        *)
(* serialization error, and True on success (the file then holds the        *)
(* serialized list).                                                        *)
C4_SaveNeverRaises ==
    last.op = "save" =>
        /\ last.raised = "none"
        /\ last.ret = PBool(~SaveError(last))
        /\ ~SaveError(last) => file = FileJson(_serialize_dates(last.arg))

C4_Witness ==
    /\ last.op = "save" /\ last.fault = "none"
    /\ last.ret = PBool(FALSE)

\* out is raw with the strings converted that C16 says are converted: a
\* string that is the value of one of the five keys and parses, and no other
RECURSIVE ConvertedOnlyUnderDateKeys(_, _)
ConvertedOnlyUnderDateKeys(raw, out) ==
    IF raw.t = "dict"
    THEN /\ out.t = "dict"
         /\ DOMAIN out.v = DOMAIN raw.v
         /\ \A k \in DOMAIN raw.v :
               IF raw.v[k].t = "str"
               THEN IF /\ k \in {"start_date", "due_date", "timestamp",
                                 "created_at", "updated_at"}
                       /\ fromisoformat(raw.v[k].v).ok
                    THEN out.v[k] = DateOf(fromisoformat(raw.v[k].v).val)
                    ELSE out.v[k] = raw.v[k]
               ELSE ConvertedOnlyUnderDateKeys(raw.v[k], out.v[k])
    ELSE IF raw.t = "list"
    THEN /\ out.t = "list"
         /\ Len(out.v) = Len(raw.v)
         /\ \A i \in 1..Len(raw.v) :
               IF raw.v[i].t = "str" THEN out.v[i] = raw.v[i]
               ELSE ConvertedOnlyUnderDateKeys(raw.v[i], out.v[i])
    ELSE out = raw

(* C16: on load a string value is converted to a date only when its key is  *)
(* one of start_date, due_date, timestamp, created_at, updated_at (at any   *)
(* nesting depth); if such a string cannot be parsed as ISO-8601 it is kept *)
(* unchanged and the load still succeeds; string values under any other key *)
(* are returned unchanged.                                                  *)
C16_LoadConvertsOnlyDateKeys ==
    (last.op = "load" /\ last.fault = "none" /\ last.preFile.kind = "json")
        => /\ last.raised = "none"
           /\ ConvertedOnlyUnderDateKeys(last.preFile.doc, last.ret)

\* the hand-edited file: 30 February is kept, the timestamp becomes a date,
\* the name that reads like a date stays a string
C16_Witness ==
    /\ last.op = "load" /\ last.preFile = FileJson(ExternalDoc)
    /\ Len(last.ret.v) = 1
    /\ DictGet(last.ret.v[1], "due_date") = PStr(DateIso(PDate(2026, 2, 30)))
    /\ DictGet(last.ret.v[1], "created_at") = PDate(2026, 1, 5)
    /\ DictGet(last.ret.v[1], "name").t = "str"

\* a date two levels down: a subtask's due_date
C16_WitnessNested ==
    /\ last.op = "load" /\ last.preFile.kind = "json"
    /\ \E i \in 1..Len(last.ret.v) :
          /\ "subtasks" \in DOMAIN last.ret.v[i].v
          /\ DictGet(last.ret.v[i].v["subtasks"].v[1], "due_date").t = "date"
          /\ DictGet(last.preFile.doc.v[i].v["subtasks"].v[1], "due_date").t = "str"

-----------------------------------------------------------------------------
(* Claims about the operations on the list, checked under SpecStore *)

\* the positions of ps whose project has the id project_id
Matching(ps, project_id) ==
    {i \in 1..Len(ps.v) : DictGet(ps.v[i], "id") = project_id}

First(S) == CHOOSE i \in S : \A j \in S : i <= j

\* the string s spells the clock reading c
Spells(s, c) ==
    /\ s.t = "str"
    /\ fromisoformat(s.v) = [ok |-> TRUE, val |-> Now(c)]

(* C5: update_project(P, id, updates) with an id that matches no project    *)
(* returns P unchanged: no project gains or loses a field, and every        *)
(* updated_at keeps its value.                                              *)
C5_UpdateAbsentId ==
    (last.op = "update" /\ Matching(last.pre, last.id) = {})
        => /\ projects = last.pre
           /\ \A i \in 1..Len(last.pre.v) :
                 /\ DOMAIN projects.v[i].v = DOMAIN last.pre.v[i].v
                 /\ DictGet(projects.v[i], "updated_at")
                        = DictGet(last.pre.v[i], "updated_at")

C5_Witness ==
    /\ last.op = "update" /\ Matching(last.pre, last.id) = {}
    /\ Len(last.pre.v) = MaxProjects

(* C6: update_project(P, id, updates) with an id present in P merges every  *)
(* key of updates into the first project with that id, then sets its        *)
(* updated_at to the current time (also when updates carries updated_at),   *)
(* and leaves every other project, later ones with the same id included,    *)
(* and the length and order of the list unchanged.                          *)
C6_UpdatePresentId ==
    (last.op = "update" /\ Matching(last.pre, last.id) # {})
        => LET i   == First(Matching(last.pre, last.id))
               old == last.pre.v[i]
               new == projects.v[i]
               u   == last.updates
           IN  /\ Len(projects.v) = Len(last.pre.v)
               /\ \A j \in 1..Len(last.pre.v) :
                     j # i => projects.v[j] = last.pre.v[j]
               /\ new.t = "dict"
               /\ DOMAIN new.v = DOMAIN old.v \cup DOMAIN u.v \cup {"updated_at"}
               /\ \A k \in DOMAIN u.v \ {"updated_at"} : new.v[k] = u.v[k]
               /\ \A k \in DOMAIN old.v \ (DOMAIN u.v \cup {"updated_at"}) :
                     new.v[k] = old.v[k]
               /\ Spells(new.v["updated_at"], last.c)

C6_Witness ==
    /\ last.op = "update"
    /\ Cardinality(Matching(last.pre, last.id)) >= 2
    /\ "updated_at" \in DOMAIN last.updates.v

(* C7: delete_project(P, id) returns exactly the projects of P whose id     *)
(* differs from id, in their original order; every project with the id is   *)
(* removed and no other is removed or altered.                              *)
C7_DeleteProject ==
    last.op = "delete" =>
        LET kept == (1..Len(last.pre.v)) \ Matching(last.pre, last.id)
            Nth(n) == CHOOSE i \in kept : Cardinality({j \in kept : j < i}) = n - 1
        IN  /\ Len(projects.v) = Cardinality(kept)
            /\ \A n \in 1..Len(projects.v) : projects.v[n] = last.pre.v[Nth(n)]

C7_Witness ==
    /\ last.op = "delete"
    /\ Matching(last.pre, last.id) # {}
    /\ Len(projects.v) >= 1

(* C8: add_project(P, new_project) sets created_at and updated_at on        *)
(* new_project and appends it as the last element; the projects already     *)
(* there stay unchanged and in order, and the length grows by one.          *)
C8_AddProject ==
    last.op = "add" =>
        LET n     == Len(last.pre.v)
            added == projects.v[n + 1]
        IN  /\ Len(projects.v) = n + 1
            /\ SubSeq(projects.v, 1, n) = last.pre.v
            /\ DOMAIN added.v = DOMAIN last.new.v \cup {"created_at", "updated_at"}
            /\ \A k \in DOMAIN last.new.v \ {"created_at", "updated_at"} :
                  added.v[k] = last.new.v[k]
            /\ Spells(added.v["created_at"], last.c1)
            /\ Spells(added.v["updated_at"], last.c2)

C8_Witness ==
    /\ last.op = "add" /\ Len(last.pre.v) >= 1
    /\ "created_at" \in DOMAIN last.new.v
    /\ last.c1 # last.c2

(* C9: get_project_by_id(P, id) returns the first project in list order     *)
(* whose id equals id, None when there is none, and never modifies P.       *)
C9_GetProjectById ==
    last.op = "get" =>
        /\ projects = last.pre
        /\ IF Matching(last.pre, last.id) = {} THEN last.ret = PNone
           ELSE last.ret = last.pre.v[First(Matching(last.pre, last.id))]

C9_Witness ==
    /\ last.op = "get"
    /\ Cardinality(Matching(last.pre, last.id)) >= 2
    /\ last.pre.v[1] # last.pre.v[2]

C9_WitnessNone ==
    /\ last.op = "get" /\ last.ret = PNone /\ Len(last.pre.v) >= 1

-----------------------------------------------------------------------------
(* Claims about id generation, checked under SpecIds *)

(* C10: two calls of generate_project_id, or of generate_subtask_id, made   *)
(* in immediate succession return two distinct strings.                     *)
C10_SuccessiveIdsDistinct ==
    (/\ last.op \in {"generate_project_id", "generate_subtask_id"}
     /\ prev.op = last.op)
        => last.ret # prev.ret

\* what the generators do give: two successive ids of one kind differ
\* exactly when the clock read differently at the two calls
SuccessiveIdsFollowClock ==
    (/\ last.op \in {"generate_project_id", "generate_subtask_id"}
     /\ prev.op = last.op)
        => (last.ret = prev.ret <=> last.c = prev.c)

-----------------------------------------------------------------------------
(* Derived status (src/components/visualizations.py) *)

\* bool(v) of a Python value
Truthy(v) ==
    IF v.t = "none" THEN FALSE
    ELSE IF v.t = "bool" THEN v.v
    ELSE IF v.t = "int" THEN v.v # 0
    ELSE IF v.t \in {"str", "list"} THEN Len(v.v) > 0
    ELSE IF v.t = "dict" THEN DOMAIN v.v # {}
    ELSE IF v.t = "set" THEN v.v # {}
    ELSE TRUE

\* a < b of two dates
DateLess(a, b) ==
    \/ a.y < b.y
    \/ a.y = b.y /\ a.m < b.m
    \/ a.y = b.y /\ a.m = b.m /\ a.d < b.d

\* date.today() when the clock reads c
Today(c) == DateOf(Now(c))

\* project.get('status', 'Not Started')
StoredStatus(project) ==
    IF "status" \in DOMAIN project.v THEN project.v["status"]
    ELSE Txt("Not Started")

\* get_status_with_overdue below its test for 'Completed': raised names the
\* exception that leaves the function, there is no try around any of it
overdue_test(project, status, today) ==
    LET due_date == DictGet(project, "due_date")
    IN  IF ~Truthy(due_date) THEN [ret |-> status, raised |-> "none"]
        ELSE IF due_date.t = "str" /\ ~fromisoformat(due_date.v).ok
        THEN [ret |-> PNone, raised |-> "ValueError"]
        ELSE LET d == IF due_date.t = "str"
                      THEN DateOf(fromisoformat(due_date.v).val)
                      ELSE due_date
             IN  IF d.t # "date" THEN [ret |-> PNone, raised |-> "TypeError"]
                 ELSE IF DateLess(d, today)
                 THEN [ret |-> Txt("Overdue"), raised |-> "none"]
                 ELSE [ret |-> status, raised |-> "none"]

\* get_status_with_overdue without the early return for 'Completed'
get_status_with_overdue_no_completed_test(project, today) ==
    overdue_test(project, StoredStatus(project), today)

\* get_status_with_overdue(project), today being date.today()
get_status_with_overdue(project, today) ==
    IF StoredStatus(project) = Txt("Completed")
    THEN [ret |-> StoredStatus(project), raised |-> "none"]
    ELSE overdue_test(project, StoredStatus(project), today)

\* projects a page renders: a date from the sidebar's date_input, ISO strings
\* as get_default_projects spells them, no due date, no status
sInProgress ==
    PDict([id |-> Txt("s1"), status |-> Txt("In Progress"),
           due_date |-> PDate(2026, 1, 5)])
sCompleted ==
    PDict([id |-> Txt("s2"), status |-> Txt("Completed"),
           due_date |-> PStr(DateIso(PDate(2026, 1, 4)))])
sOnHold ==
    PDict([id |-> Txt("s3"), status |-> Txt("On Hold"), due_date |-> PNone])
sNoStatus ==
    PDict([id |-> Txt("s4"), due_date |-> PStr(DateIso(PDate(2026, 1, 4)))])

StatusPool == {sInProgress, sCompleted, sOnHold, sNoStatus, pDefault}

StatusLists == {PList(q) : q \in SeqsUpTo(StatusPool, MaxProjects)}

InitStatus ==
    /\ file = FileAbsent
    /\ projects \in StatusLists
    /\ clock = 0
    /\ last = [op |-> "init"]
    /\ prev = [op |-> "init"]

\* a page computes the derived status of the i-th project of the session
GetStatusWithOverdue(i) ==
    /\ i <= Len(projects.v)
    /\ LET r == get_status_with_overdue(projects.v[i], Today(clock))
       IN  last' = [op |-> "status", project |-> projects.v[i],
                    today |-> Today(clock), ret |-> r.ret, raised |-> r.raised,
                    loaded |-> last.op = "load"]
    /\ prev' = Brief(last)
    /\ UNCHANGED <<file, projects, clock>>

NextStatus ==
    \/ Tick
    \/ \E fault \in SaveFaults : Save(fault)
    \/ \E fault \in LoadFaults : Load(fault)
    \/ \E f \in ExternalFiles : ExternalWrite(f)
    \/ \E i \in 1..MaxProjects : GetStatusWithOverdue(i)

SpecStatus == InitStatus /\ [][NextStatus]_vars

-----------------------------------------------------------------------------
(* Claims about the derived status, checked under SpecStatus *)

\* the project has no due date, or one that names a calendar day: a date, or
\* a string that spells one
DueDateIsCalendarDay(project) ==
    LET d == DictGet(project, "due_date")
    IN  \/ d = PNone
        \/ d.t = "date"
        \/ d.t = "str" /\ fromisoformat(d.v).ok

\* the calendar day the due date names
DueDay(project) ==
    LET d == DictGet(project, "due_date")
    IN  IF d.t = "str" THEN DateOf(fromisoformat(d.v).val) ELSE d

C11_WitnessDueToday ==
    /\ last.op = "status" /\ last.ret = Txt("In Progress")
    /\ DictGet(last.project, "due_date") = last.today

C11_WitnessCompleted ==
    /\ last.op = "status" /\ last.ret = Txt("Completed")
    /\ DateLess(DueDay(last.project), last.today)

C11_WitnessNoDueDate ==
    /\ last.op = "status" /\ last.ret = Txt("On Hold")
    /\ DictGet(last.project, "due_date") = PNone

(* C17: no error is ever fatal: for any content of the backing file, and in *)
(* particular for a project whose due_date is an unparseable string that    *)
(* load passed through unchanged, loading the list and then computing each  *)
(* project's derived status completes without raising.                      *)
C17_NoErrorIsFatal ==
    /\ last.op = "load" => last.raised = "none"
    /\ (last.op = "status" /\ last.loaded) => last.raised = "none"

\* what does hold: the load itself never raises and keeps the string, and
\* the derived status raises only on a due_date string that spells no date
LoadThenStatusRaisesOnlyOnBadDueDate ==
    /\ last.op = "load" => last.raised = "none"
    /\ last.op = "status" =>
          (last.raised # "none" <=>
              /\ StoredStatus(last.project) # Txt("Completed")
              /\ ~DueDateIsCalendarDay(last.project))

-----------------------------------------------------------------------------
(* The session: st.session_state.projects and the functions of src/app.py   *)
(* that edit it in place.  Each is given here as a function of the list;    *)
(* the trailing save_projects() is part of the actions further down.        *)

\* str(n) of a natural number, as an f-string prints it
RECURSIVE Decimal(_)
Decimal(n) == IF n < 10 THEN <<DigitChar(n)>>
              ELSE Decimal(n \div 10) \o <<DigitChar(n % 10)>>

\* for i, p in enumerate(projects): if p.get('id') == project_id: ... break
\* the position of the project the loop body runs on, 0 when it never runs
ProjectIndex(ps, project_id) ==
    IF \E i \in 1..Len(ps.v) : DictGet(ps.v[i], "id") = project_id
    THEN CHOOSE i \in 1..Len(ps.v) :
            /\ DictGet(ps.v[i], "id") = project_id
            /\ \A j \in 1..(i - 1) : DictGet(ps.v[j], "id") # project_id
    ELSE 0

\* st.session_state.projects[i] = p
WithProject(ps, i, p) == PList([ps.v EXCEPT ![i] = p])

\* p.get('subtasks', [])
SubtasksOf(p) ==
    IF "subtasks" \in DOMAIN p.v THEN p.v["subtasks"] ELSE PList(<<>>)

\* sum(1 for s in subtasks if s.get('completed'))
completed_count(subtasks) ==
    Cardinality({k \in 1..Len(subtasks.v) :
                    Truthy(DictGet(subtasks.v[k], "completed"))})

\* int((completed_count / len(subtasks)) * 100): the quotient is a double
\* and int() truncates; for lists of up to 40 subtasks the result is the
\* integer part of the exact value of 100 * completed_count / len
percentage(subtasks) ==
    PInt((completed_count(subtasks) * 100) \div Len(subtasks.v))

\* list.pop(k - 1) and list.insert(k - 1, item) on a sequence
Pop(s, k) == SubSeq(s, 1, k - 1) \o SubSeq(s, k + 1, Len(s))
Insert(s, k, item) == SubSeq(s, 1, k - 1) \o <<item>> \o SubSeq(s, k, Len(s))

\* recalculate_completion counting the subtasks still open
recalculate_completion_counting_open(ps, project_id) ==
    LET i == ProjectIndex(ps, project_id)
    IN  IF i = 0 THEN ps
        ELSE LET subtasks == SubtasksOf(ps.v[i])
             IN  IF Truthy(subtasks)
                 THEN WithProject(ps, i, DictSet(ps.v[i], "completion_percentage",
                        PInt(((Len(subtasks.v) - completed_count(subtasks)) * 100)
                                 \div Len(subtasks.v))))
                 ELSE ps

\* recalculate_completion(project_id)
recalculate_completion(ps, project_id) ==
    LET i == ProjectIndex(ps, project_id)
    IN  IF i = 0 THEN ps
        ELSE LET subtasks == SubtasksOf(ps.v[i])
             IN  IF Truthy(subtasks)
                 THEN WithProject(ps, i, DictSet(ps.v[i], "completion_percentage",
                                                 percentage(subtasks)))
                 ELSE ps

\* delete_subtask with completed_count taken before the pop
delete_subtask_count_before_pop(ps, project_id, sub_idx) ==
    LET i == ProjectIndex(ps, project_id)
    IN  IF i = 0 THEN ps
        ELSE LET subtasks == SubtasksOf(ps.v[i])
                 popped   == PList(Pop(subtasks.v, sub_idx + 1))
             IN  IF 0 <= sub_idx /\ sub_idx < Len(subtasks.v)
                 THEN WithProject(ps, i,
                        DictSet(DictSet(ps.v[i], "subtasks", popped),
                                "completion_percentage",
                                IF Truthy(popped)
                                THEN PInt((completed_count(subtasks) * 100)
                                              \div Len(popped.v))
                                ELSE PInt(0)))
                 ELSE ps

\* delete_subtask with the test sub_idx < len(subtasks) alone: list.pop takes
\* a negative index from the end
delete_subtask_without_lower_bound(ps, project_id, sub_idx) ==
    LET i == ProjectIndex(ps, project_id)
    IN  IF i = 0 THEN ps
        ELSE LET subtasks == SubtasksOf(ps.v[i])
                 k        == IF sub_idx < 0 THEN Len(subtasks.v) + sub_idx
                             ELSE sub_idx
                 popped   == PList(Pop(subtasks.v, k + 1))
             IN  IF sub_idx < Len(subtasks.v) /\ k >= 0
                 THEN WithProject(ps, i,
                        DictSet(DictSet(ps.v[i], "subtasks", popped),
                                "completion_percentage",
                                IF Truthy(popped) THEN percentage(popped)
                                ELSE PInt(0)))
                 ELSE ps

\* delete_subtask(project_id, sub_idx)
delete_subtask(ps, project_id, sub_idx) ==
    LET i == ProjectIndex(ps, project_id)
    IN  IF i = 0 THEN ps
        ELSE LET subtasks == SubtasksOf(ps.v[i])
                 popped   == PList(Pop(subtasks.v, sub_idx + 1))
             IN  IF 0 <= sub_idx /\ sub_idx < Len(subtasks.v)
                 THEN WithProject(ps, i,
                        DictSet(DictSet(ps.v[i], "subtasks", popped),
                                "completion_percentage",
                                IF Truthy(popped) THEN percentage(popped)
                                ELSE PInt(0)))
                 ELSE ps

\* move_subtask(project_id, from_idx, to_idx): the two subtasks change places
move_subtask(ps, project_id, from_idx, to_idx) ==
    LET i == ProjectIndex(ps, project_id)
    IN  IF i = 0 THEN ps
        ELSE LET subtasks == SubtasksOf(ps.v[i])
             IN  IF /\ 0 <= from_idx /\ from_idx < Len(subtasks.v)
                    /\ 0 <= to_idx /\ to_idx < Len(subtasks.v)
                 THEN WithProject(ps, i, DictSet(ps.v[i], "subtasks",
                        PList([subtasks.v EXCEPT
                                  ![from_idx + 1] = subtasks.v[to_idx + 1],
                                  ![to_idx + 1] = subtasks.v[from_idx + 1]])))
                 ELSE ps

\* move_subtask_to_position(project_id, from_idx, to_idx)
move_subtask_to_position(ps, project_id, from_idx, to_idx) ==
    LET i == ProjectIndex(ps, project_id)
    IN  IF i = 0 THEN ps
        ELSE LET subtasks == SubtasksOf(ps.v[i])
             IN  IF /\ 0 <= from_idx /\ from_idx < Len(subtasks.v)
                    /\ 0 <= to_idx /\ to_idx < Len(subtasks.v)
                 THEN WithProject(ps, i, DictSet(ps.v[i], "subtasks",
                        PList(Insert(Pop(subtasks.v, from_idx + 1), to_idx + 1,
                                     subtasks.v[from_idx + 1]))))
                 ELSE ps

\* update_project_field(project_id, field, value); c is the clock at now()
update_project_field(ps, project_id, field, value, c) ==
    LET i == ProjectIndex(ps, project_id)
    IN  IF i = 0 THEN ps
        ELSE WithProject(ps, i,
                DictSet(DictSet(ps.v[i], field, value), "updated_at", NowIso(c)))

\* update_subtask_field(project_id, subtask_idx, field, value), with a
\* subtask_idx that is not negative
update_subtask_field(ps, project_id, subtask_idx, field, value, c) ==
    LET i == ProjectIndex(ps, project_id)
    IN  IF i = 0 THEN ps
        ELSE IF /\ "subtasks" \in DOMAIN ps.v[i].v
                /\ subtask_idx < Len(ps.v[i].v["subtasks"].v)
        THEN LET subtasks == ps.v[i].v["subtasks"]
                 edited   == PList([subtasks.v EXCEPT ![subtask_idx + 1] =
                                        DictSet(@, field, value)])
             IN  WithProject(ps, i,
                    DictSet(DictSet(ps.v[i], "subtasks", edited),
                            "updated_at", NowIso(c)))
        ELSE ps

\* the dict add_new_subtask builds; c is the clock at generate_subtask_id()
\* and date.today()
NewSubtask(obj_num, current_count, c) ==
    PDict([id |-> generate_subtask_id(c),
           name |-> PStr(<<"New Subtask ">> \o Decimal(obj_num) \o <<".">>
                         \o Decimal(current_count + 1)),
           description |-> PStr(<<>>),
           completion_criteria |-> PStr(<<>>),
           start_date |-> PStr(isoformat(Today(c))),
           due_date |-> PStr(isoformat(PDate(2026, 3, 31))),
           owner |-> PStr(<<>>),
           dependencies |-> PStr(<<>>),
           success_metric |-> PStr(<<>>),
           completed |-> PBool(FALSE),
           notes |-> PList(<<>>)])

\* add_new_subtask(project_id, obj_num, current_count)
add_new_subtask(ps, project_id, obj_num, current_count, c) ==
    LET i == ProjectIndex(ps, project_id)
    IN  IF i = 0 THEN ps
        ELSE WithProject(ps, i, DictSet(ps.v[i], "subtasks",
                PList(Append(SubtasksOf(ps.v[i]).v,
                             NewSubtask(obj_num, current_count, c)))))

\* the completion tracker's "Update if changed" block for subtask i of the
\* project: i is a position of its list
tracker_toggle(ps, project_id, i, new_completed) ==
    LET pi == ProjectIndex(ps, project_id)
    IN  IF pi = 0 THEN ps
        ELSE LET subtasks == ps.v[pi].v["subtasks"]
                 edited   == PList([subtasks.v EXCEPT ![i + 1] =
                                        DictSet(@, "completed", new_completed)])
             IN  WithProject(ps, pi,
                    DictSet(DictSet(ps.v[pi], "subtasks", edited),
                            "completion_percentage",
                            IF Len(edited.v) > 0 THEN percentage(edited)
                            ELSE PInt(0)))

\* add_note_to_project(project_id, note_text); c1, c2, c3 are the clock at
\* its three datetime.now()
add_note_to_project(ps, project_id, note_text, c1, c2, c3) ==
    LET i == ProjectIndex(ps, project_id)
    IN  IF i = 0 THEN ps
        ELSE LET notes == IF "notes" \in DOMAIN ps.v[i].v
                          THEN ps.v[i].v["notes"] ELSE PList(<<>>)
                 new_note == PDict([id |-> PStr(<<"n", "o", "t", "e", "_">>
                                                \o strftime(Now(c1))),
                                    text |-> note_text,
                                    timestamp |-> NowIso(c2)])
             IN  WithProject(ps, i,
                    DictSet(DictSet(ps.v[i], "notes",
                                    PList(Append(notes.v, new_note))),
                            "updated_at", NowIso(c3)))

-----------------------------------------------------------------------------
(* A session working on the subtasks of the default projects *)

\* "Add Subtask" is pressed only on a project with fewer subtasks than this
MaxSubtasks == 2

\* a subtask as get_default_projects writes it: the fields the session's
\* functions read or write
DefaultSubtask(id, due) ==
    PDict([id |-> Txt(id), due_date |-> PStr(DateIso(due)),
           completed |-> PBool(FALSE)])

\* get_default_projects(): its first two projects
get_default_projects ==
    PList(<<
      PDict([id |-> Txt("proj_001"), objective_number |-> PInt(1),
             status |-> Txt("Not Started"),
             due_date |-> PStr(DateIso(PDate(2026, 3, 21))),
             completion_percentage |-> PInt(0),
             subtasks |-> PList(<<DefaultSubtask("task_001_1", PDate(2026, 1, 24)),
                                  DefaultSubtask("task_001_2", PDate(2026, 2, 21)),
                                  DefaultSubtask("task_001_3", PDate(2026, 3, 21))>>),
             notes |-> PList(<<>>)]),
      PDict([id |-> Txt("proj_002"), objective_number |-> PInt(2),
             status |-> Txt("Not Started"),
             due_date |-> PStr(DateIso(PDate(2026, 3, 28))),
             completion_percentage |-> PInt(0),
             subtasks |-> PList(<<DefaultSubtask("task_002_1", PDate(2026, 1, 31)),
                                  DefaultSubtask("task_002_2", PDate(2026, 2, 28)),
                                  DefaultSubtask("task_002_3", PDate(2026, 3, 28))>>),
             notes |-> PList(<<>>)])>>)

\* the project whose sidebar and tracker rows the user works on: the second
\* of the list, so that every loop passes over a project it must leave alone
SessionProjectIds == {Txt("proj_002")}

\* a save that leaves alone a file that already holds a JSON document
Saved_first_writer_wins(ps, f, fault) ==
    IF f.kind = "json" THEN f ELSE save_projects(ps, f, fault).file

\* the file after save_projects() of app.py has saved the session list ps
Saved(ps, f, fault) == save_projects(ps, f, fault).file

\* what save_projects() of app.py returns then: success
SaveReturns(ps, f, fault) == save_projects(ps, f, fault).ret

\* a save of the session may fail once the file is open
SessionFaults == {"none", "write"}

\* load_projects() of app.py on a first run: no file yet, so the session
\* gets the defaults and they are saved
InitSession ==
    /\ projects = get_default_projects
    /\ file = Saved(get_default_projects, FileAbsent, "none")
    /\ clock = 0
    /\ last = [op |-> "init"]
    /\ prev = [op |-> "init"]

\* the project the functions find under project_id
Found(project_id) == projects.v[ProjectIndex(projects, project_id)]

\* for sub_idx, subtask in enumerate(subtasks): the rows a page shows for
\* the project, none when the session list does not have it
Rows(project_id) ==
    IF ProjectIndex(projects, project_id) = 0 THEN {}
    ELSE 0..(Len(SubtasksOf(Found(project_id)).v) - 1)

RecalculateCompletion(project_id, fault) ==
    /\ ProjectIndex(projects, project_id) # 0
    /\ projects' = recalculate_completion(projects, project_id)
    /\ file' = Saved(projects', file, fault)
    /\ last' = [op |-> "recalculate_completion", id |-> project_id,
                recomputed |-> Truthy(SubtasksOf(Found(project_id))),
                saved |-> SaveReturns(projects', file, fault)]
    /\ UNCHANGED <<clock, prev>>

\* the sidebar's delete button of a row
DeleteSubtask(project_id, fault) ==
    \E sub_idx \in Rows(project_id) :
        /\ projects' = delete_subtask(projects, project_id, sub_idx)
        /\ file' = Saved(projects', file, fault)
        /\ last' = [op |-> "delete_subtask", id |-> project_id,
                    recomputed |-> TRUE,
                    saved |-> SaveReturns(projects', file, fault)]
        /\ UNCHANGED <<clock, prev>>

\* the sidebar's position selectbox of a row, set to another position
MoveSubtaskToPosition(project_id, fault) ==
    \E from_idx, to_idx \in Rows(project_id) :
        /\ from_idx # to_idx
        /\ projects' = move_subtask_to_position(projects, project_id,
                                                from_idx, to_idx)
        /\ file' = Saved(projects', file, fault)
        /\ last' = [op |-> "move_subtask_to_position", id |-> project_id,
                    recomputed |-> FALSE,
                    saved |-> SaveReturns(projects', file, fault)]
        /\ UNCHANGED <<clock, prev>>

\* the sidebar's "Add Subtask" button
AddNewSubtask(project_id, fault) ==
    /\ ProjectIndex(projects, project_id) # 0
    /\ Len(SubtasksOf(Found(project_id)).v) < MaxSubtasks
    /\ projects' = add_new_subtask(projects, project_id,
                        DictGet(Found(project_id), "objective_number").v,
                        Len(SubtasksOf(Found(project_id)).v), clock)
    /\ file' = Saved(projects', file, fault)
    /\ last' = [op |-> "add_new_subtask", id |-> project_id,
                recomputed |-> FALSE,
                saved |-> SaveReturns(projects', file, fault)]
    /\ UNCHANGED <<clock, prev>>

\* subtask.get('completed', False) of row sub_idx
IsCompleted(project_id, sub_idx) ==
    Truthy(DictGet(SubtasksOf(Found(project_id)).v[sub_idx + 1], "completed"))

\* the sidebar's checkbox of a row: update_subtask_field, then
\* recalculate_completion, each with its save
SidebarToggle(project_id, fault1, fault2) ==
    \E sub_idx \in Rows(project_id) :
        LET edited == update_subtask_field(projects, project_id, sub_idx,
                          "completed",
                          PBool(~IsCompleted(project_id, sub_idx)), clock)
        IN  /\ projects' = recalculate_completion(edited, project_id)
            /\ file' = Saved(projects', Saved(edited, file, fault1), fault2)
            /\ last' = [op |-> "sidebar_toggle", id |-> project_id,
                        recomputed |-> TRUE]
            /\ UNCHANGED <<clock, prev>>

\* the completion tracker's checkbox of a row
TrackerToggle(project_id, fault) ==
    \E i \in Rows(project_id) :
        /\ projects' = tracker_toggle(projects, project_id, i,
                                      PBool(~IsCompleted(project_id, i)))
        /\ file' = Saved(projects', file, fault)
        /\ last' = [op |-> "tracker_toggle", id |-> project_id,
                    recomputed |-> TRUE]
        /\ UNCHANGED <<clock, prev>>

NextSubtasks ==
    \/ \E project_id \in SessionProjectIds, fault \in SessionFaults :
          RecalculateCompletion(project_id, fault)
    \/ \E project_id \in SessionProjectIds, fault \in SessionFaults :
          AddNewSubtask(project_id, fault)
    \/ \E project_id \in SessionProjectIds, fault \in SessionFaults :
          DeleteSubtask(project_id, fault)
    \/ \E project_id \in SessionProjectIds, fault \in SessionFaults :
          TrackerToggle(project_id, fault)
    \/ \E project_id \in SessionProjectIds, fault1, fault2 \in SessionFaults :
          SidebarToggle(project_id, fault1, fault2)
    \/ \E project_id \in SessionProjectIds, fault \in SessionFaults :
          MoveSubtaskToPosition(project_id, fault)

SpecSubtasks == InitSession /\ [][NextSubtasks]_vars

-----------------------------------------------------------------------------
(* Claims about completion_percentage, checked under SpecSubtasks *)

\* round(num / den) of Python: to the nearest integer, ties to the even one
Round(num, den) ==
    LET q == num \div den
        r == num % den
    IN  IF 2 * r < den THEN q
        ELSE IF 2 * r > den THEN q + 1
        ELSE IF q % 2 = 0 THEN q ELSE q + 1

\* the project the last operation worked on, as it is now
Worked == projects.v[ProjectIndex(projects, last.id)]

StoredPercentage(p) == DictGet(p, "completion_percentage")

(* C12: whenever completion_percentage is recomputed from a non-empty       *)
(* subtask list (recalculate_completion, delete_subtask, a completion       *)
(* tracker toggle), the stored value equals                                 *)
(* round(100 * completed_subtasks / total_subtasks).                        *)
C12_RecomputedIsRounded ==
    (/\ last.op \in {"recalculate_completion", "delete_subtask", "tracker_toggle"}
     /\ last.recomputed
     /\ Len(SubtasksOf(Worked).v) > 0)
        => StoredPercentage(Worked) =
              PInt(Round(100 * completed_count(SubtasksOf(Worked)),
                         Len(SubtasksOf(Worked).v)))

\* what the three recomputations do store: the percentage cut to its
\* integer part
RecomputedIsTruncated ==
    (/\ last.op \in {"recalculate_completion", "delete_subtask", "tracker_toggle"}
     /\ last.recomputed
     /\ Len(SubtasksOf(Worked).v) > 0)
        => StoredPercentage(Worked) =
              PInt((100 * completed_count(SubtasksOf(Worked)))
                       \div Len(SubtasksOf(Worked).v))

\* the percentage the program derives from a subtask list
Derived(subtasks) ==
    IF Len(subtasks.v) = 0 THEN PInt(0) ELSE percentage(subtasks)

(* C13: after every operation that mutates a project's subtasks             *)
(* (add_new_subtask, delete_subtask, a toggle of completed in the sidebar   *)
(* or in the completion tracker), that project's completion_percentage has  *)
(* been recomputed and equals the percentage derived from the current list. *)
C13_MutationRecomputes ==
    last.op \in {"add_new_subtask", "delete_subtask", "sidebar_toggle",
                 "tracker_toggle"}
        => StoredPercentage(Worked) = Derived(SubtasksOf(Worked))

\* what does hold: the deletion and the two toggles recompute it
DeleteAndTogglesRecompute ==
    last.op \in {"delete_subtask", "sidebar_toggle", "tracker_toggle"}
        => StoredPercentage(Worked) = Derived(SubtasksOf(Worked))

(* C14: from the default projects, in every state reachable by subtask      *)
(* add/delete/move/toggle operations and recalculations, every project's    *)
(* completion_percentage is an integer between 0 and 100 inclusive.         *)
C14_PercentageInRange ==
    \A i \in 1..Len(projects.v) :
        /\ StoredPercentage(projects.v[i]).t = "int"
        /\ StoredPercentage(projects.v[i]).v \in 0..100

\* all three subtasks completed, then one of them deleted: still 100
C14_Witness ==
    /\ last.op = "delete_subtask"
    /\ StoredPercentage(Worked) = PInt(100)
    /\ Len(SubtasksOf(Worked).v) = 2

\* a stale 100 after an addition; two of three completed, then moved
C14_WitnessStale ==
    /\ last.op = "add_new_subtask"
    /\ StoredPercentage(Worked) = PInt(100)
    /\ completed_count(SubtasksOf(Worked)) < Len(SubtasksOf(Worked).v)

C14_WitnessMoved ==
    /\ last.op = "move_subtask_to_position"
    /\ StoredPercentage(Worked) = PInt(66)
    /\ DictGet(SubtasksOf(Worked).v[1], "id") = Txt("task_002_3")

-----------------------------------------------------------------------------
(* The scenario of an empty store: a caller loads, adds the scenario's       *)
(* project, saves, reloads, then marks subtasks and recalculates             *)

\* the caller adds the scenario's project to the empty list it loaded
AddScenarioProject(dt) ==
    /\ projects = PList(<<>>)
    /\ AddProject(pScenario, dt)

\* update_subtask_field(project_id, 0, 'completed', value) and its save
UpdateSubtaskField(project_id, value, fault) ==
    /\ projects' = update_subtask_field(projects, project_id, 0,
                                        "completed", value, clock)
    /\ file' = Saved(projects', file, fault)
    /\ last' = [op |-> "update_subtask_field", id |-> project_id,
                value |-> value]
    /\ prev' = Brief(last)
    /\ UNCHANGED clock

\* recalculate_completion(project_id) and its save
ScenarioRecalculate(project_id, fault) ==
    /\ projects' = recalculate_completion(projects, project_id)
    /\ file' = Saved(projects', file, fault)
    /\ last' = [op |-> "recalculate_completion", id |-> project_id,
                pre |-> projects]
    /\ prev' = Brief(last)
    /\ UNCHANGED clock

NextScenario ==
    \/ Tick
    \/ \E fault \in LoadFaults : Load(fault)
    \/ \E fault \in SaveFaults : Save(fault)
    \/ \E dt \in {0, 1} : AddScenarioProject(dt)
    \/ \E value \in {PBool(TRUE), PBool(FALSE)}, fault \in SessionFaults :
          UpdateSubtaskField(Txt("p1"), value, fault)
    \/ \E fault \in SessionFaults : ScenarioRecalculate(Txt("p1"), fault)

SpecScenario == InitStore /\ [][NextScenario]_vars

-----------------------------------------------------------------------------
(* The scenario, checked under SpecScenario *)

\* every subtask of p is completed, and there is one
AllCompleted(p) ==
    /\ Len(SubtasksOf(p).v) > 0
    /\ completed_count(SubtasksOf(p)) = Len(SubtasksOf(p).v)

(* C15: from an empty store load returns []; after adding one project with  *)
(* one uncompleted subtask, saving and reloading, exactly that one project  *)
(* is returned, its subtask's completed flag still false; marking every     *)
(* subtask completed and recalculating then yields completion_percentage    *)
(* 100.                                                                     *)
C15_EmptyStoreScenario ==
    /\ (last.op = "load" /\ last.preFile = FileAbsent) => last.ret = EmptyList
    /\ (/\ last.op = "load" /\ last.fault = "none"
        /\ prev.op = "save" /\ prev.ret = PBool(TRUE)
        /\ Len(prev.arg.v) = 1)
          => /\ Len(last.ret.v) = 1
             /\ \A k \in DOMAIN pScenario.v :
                   last.ret.v[1].v[k] = prev.arg.v[1].v[k]
    /\ (/\ last.op = "recalculate_completion"
        /\ Len(last.pre.v) = 1
        /\ AllCompleted(last.pre.v[1]))
          => StoredPercentage(projects.v[1]) = PInt(100)

\* the reload returns the added project, its subtask not completed
C15_WitnessReload ==
    /\ last.op = "load" /\ prev.op = "save"
    /\ Len(last.ret.v) = 1
    /\ DictGet(last.ret.v[1], "id") = Txt("p1")
    /\ SubtasksOf(last.ret.v[1]).v[1].v["completed"] = PBool(FALSE)

\* the end of the scenario: the project went through the file (its
\* created_at is a date only after a load), its subtask is marked, the
\* recalculation stored 100 and saved it
C15_Witness ==
    /\ last.op = "recalculate_completion"
    /\ Len(projects.v) = 1
    /\ DictGet(projects.v[1], "created_at").t = "date"
    /\ AllCompleted(projects.v[1])
    /\ StoredPercentage(projects.v[1]) = PInt(100)
    /\ file = FileJson(_serialize_dates(projects))

-----------------------------------------------------------------------------
(* Claims about project ids, checked under SpecStore *)

\* the sequence of the ids of the projects of ps
Ids(ps) == [i \in 1..Len(ps.v) |-> DictGet(ps.v[i], "id")]

(* C18: a project's id is immutable: update_project (and the session's      *)
(* field, subtask and note operations) leaves the sequence of project ids   *)
(* as it was, for any updates mapping.                                      *)
C18_IdImmutable ==
    last.op = "update" => Ids(projects) = Ids(last.pre)

\* what does hold for update_project: the ids stay unless updates carries id
UpdateWithoutIdKeepsIds ==
    (last.op = "update" /\ "id" \notin DOMAIN last.updates.v)
        => Ids(projects) = Ids(last.pre)

\* and the session's subtask operations never touch an id (under
\* SpecSubtasks)
SubtaskOperationsKeepIds == Ids(projects) = Ids(get_default_projects)

(* C19: project ids are unique within the store: from a list with pairwise  *)
(* distinct ids, after any sequence of add_project, update_project and      *)
(* delete_project calls no two projects of the list share an id.            *)
C19_IdsUnique ==
    \A i, j \in 1..Len(projects.v) :
        (i # j /\ DictGet(projects.v[i], "id") # PNone)
            => DictGet(projects.v[i], "id") # DictGet(projects.v[j], "id")

\* what does hold: ids are shared only after add_project was given an id
\* the list already had, or update_project an updates mapping with an id
DeleteKeepsIdsUnique ==
    (/\ last.op = "delete"
     /\ \A i, j \in 1..Len(last.pre.v) :
           (i # j /\ DictGet(last.pre.v[i], "id") # PNone)
               => DictGet(last.pre.v[i], "id") # DictGet(last.pre.v[j], "id"))
        => C19_IdsUnique

-----------------------------------------------------------------------------
(* A session editing a default project in the sidebar *)

MaxNotes == 1

\* the selectbox offering the five statuses of the timeline legend
StatusOptionsOfLegend ==
    {Txt("Not Started"), Txt("In Progress"), Txt("Completed"), Txt("Overdue"),
     Txt("On Hold")}

\* the options of the sidebar's status selectbox
StatusOptions ==
    {Txt("Not Started"), Txt("In Progress"), Txt("Completed"), Txt("On Hold")}

\* a day the user picks in the sidebar's "Due" date_input: one gone by
DueInputs == {PDate(2026, 1, 4)}

\* the note the user types
NoteTexts == {Txt("called the vendor")}

\* the sidebar's status selectbox, set to another option
SelectStatus(project_id, new_status, fault) ==
    /\ ProjectIndex(projects, project_id) # 0
    /\ new_status # DictGet(Found(project_id), "status")
    /\ projects' = update_project_field(projects, project_id, "status",
                                        new_status, clock)
    /\ file' = Saved(projects', file, fault)
    /\ last' = [op |-> "select_status", id |-> project_id,
                saved |-> SaveReturns(projects', file, fault)]
    /\ UNCHANGED <<clock, prev>>

\* the date the sidebar's "Due" date_input shows for the project
ShownDueDate(p) ==
    LET due_date_proj == DictGet(p, "due_date")
    IN  IF due_date_proj.t = "str"
        THEN (IF fromisoformat(due_date_proj.v).ok
              THEN DateOf(fromisoformat(due_date_proj.v).val)
              ELSE PDate(2026, 3, 31))
        ELSE IF Truthy(due_date_proj) THEN due_date_proj
        ELSE PDate(2026, 3, 31)

\* the sidebar's "Due" date_input, set to another day
EditDueDate(project_id, new_due_proj, fault) ==
    /\ ProjectIndex(projects, project_id) # 0
    /\ new_due_proj # ShownDueDate(Found(project_id))
    /\ projects' = update_project_field(projects, project_id, "due_date",
                                        new_due_proj, clock)
    /\ file' = Saved(projects', file, fault)
    /\ last' = [op |-> "edit_due_date", id |-> project_id]
    /\ UNCHANGED <<clock, prev>>

\* the sidebar's "Add Note" button, with a note typed in
AddNoteToProject(project_id, note_text, fault) ==
    /\ ProjectIndex(projects, project_id) # 0
    /\ projects' = add_note_to_project(projects, project_id, note_text,
                                       clock, clock, clock)
    /\ file' = Saved(projects', file, fault)
    /\ last' = [op |-> "add_note_to_project", id |-> project_id,
                saved |-> SaveReturns(projects', file, fault)]
    /\ UNCHANGED <<clock, prev>>

\* the button pressed on a project with fewer notes than MaxNotes
AddNote(project_id, note_text, fault) ==
    /\ ProjectIndex(projects, project_id) # 0
    /\ Len(DictGet(Found(project_id), "notes").v) < MaxNotes
    /\ AddNoteToProject(project_id, note_text, fault)

\* the settings page's "Reset to Default" button: the session list becomes
\* what load_projects() reads from the file
ResetToDefault ==
    /\ projects' = load_projects(file, "none").ret
    /\ last' = [op |-> "reset"]
    /\ UNCHANGED <<file, clock, prev>>

\* a new browser session: load_projects() of app.py finds no list in the
\* session state, reads the file (which may fail), and falls back to the
\* defaults, which it saves, when the load gives nothing
NewSession(load_fault, fault) ==
    LET loaded == load_projects(file, load_fault).ret
    IN  /\ projects' = IF Truthy(loaded) THEN loaded ELSE get_default_projects
        /\ file' = IF Truthy(loaded) THEN file
                   ELSE Saved(get_default_projects, file, fault)
        /\ last' = [op |-> "new_session"]
        /\ UNCHANGED <<clock, prev>>

NextSidebar ==
    \/ \E project_id \in SessionProjectIds, new_status \in StatusOptions,
             fault \in SessionFaults :
          SelectStatus(project_id, new_status, fault)
    \/ \E project_id \in SessionProjectIds, new_due_proj \in DueInputs,
             fault \in SessionFaults :
          EditDueDate(project_id, new_due_proj, fault)
    \/ \E project_id \in SessionProjectIds, note_text \in NoteTexts,
             fault \in SessionFaults :
          AddNote(project_id, note_text, fault)
    \/ \E project_id \in SessionProjectIds, fault1, fault2 \in SessionFaults :
          SidebarToggle(project_id, fault1, fault2)
    \/ ResetToDefault
    \/ \E load_fault \in LoadFaults, fault \in SessionFaults :
          NewSession(load_fault, fault)

SpecSidebar == InitSession /\ [][NextSidebar]_vars

-----------------------------------------------------------------------------
(* Claims about the stored status, checked under SpecSidebar *)

\* every status stored in the list ps is one of the four base statuses
StatusesAreBase(ps) ==
    \A i \in 1..Len(ps.v) :
        DictGet(ps.v[i], "status") \in {Txt("Not Started"), Txt("In Progress"),
                                        Txt("Completed"), Txt("On Hold")}

(* C20: the derived status 'Overdue' is never stored: from the default      *)
(* projects, in every state reachable through sidebar edits, subtask        *)
(* operations, note additions, saves and reloads, the stored status of      *)
(* every project, in the session and in the backing file, is one of Not     *)
(* Started, In Progress, Completed, On Hold.                                *)
C20_OverdueNeverStored ==
    /\ StatusesAreBase(projects)
    /\ file.kind = "json" => StatusesAreBase(file.doc)

\* an overdue project: the pages show 'Overdue', the session and the file
\* hold 'In Progress'
C20_Witness ==
    /\ last.op = "select_status"
    /\ get_status_with_overdue(Worked, Today(clock)).ret = Txt("Overdue")
    /\ DictGet(Worked, "status") = Txt("In Progress")
    /\ file = FileJson(_serialize_dates(projects))

-----------------------------------------------------------------------------
(* Claims about reset and session start, checked under SpecSidebar *)

(* C26: the 'Reset to Default' action resets all projects to the original   *)
(* Q1 2026 supply chain objectives: after it, the session project list      *)
(* equals get_default_projects() regardless of the edits made and saved     *)
(* before.                                                                  *)
C26_ResetGivesDefaults ==
    last.op = "reset" => projects = get_default_projects

\* what the button does: the session list becomes what the file gives, the
\* saved edits included, and nothing when the file holds no JSON document
ResetGivesWhatTheFileHolds ==
    last.op = "reset" =>
        projects = IF file.kind = "json"
                   THEN _deserialize_dates(file.doc, date_fields)
                   ELSE EmptyList

\* the file holds a project list that is not empty
HoldsProjects(f) == f.kind = "json" /\ Truthy(f.doc)

(* C27: session initialisation installs and saves the default project list  *)
(* only if the backing file is truly empty or missing; a backing file that  *)
(* exists with content is never overwritten by the defaults.                *)
C27_DefaultsOnlyIfEmptyOrMissing ==
    [][(last'.op = "new_session" /\ HoldsProjects(file))
          => file' = file]_vars

\* what does hold: either the file is left alone and its projects become
\* the session list, or the defaults are installed and a save of them is
\* attempted, whatever the file held
NewSessionLoadsOrInstallsDefaults ==
    [][last'.op = "new_session"
          => \/ /\ file' = file
                /\ projects' = load_projects(file, "none").ret
                /\ Truthy(projects')
             \/ /\ projects' = get_default_projects
                /\ \E fault \in SessionFaults :
                      file' = Saved(get_default_projects, file, fault)]_vars

-----------------------------------------------------------------------------
(* A failed save, checked under Spec *)

(* C30: a failed save does not destroy previously persisted data: if        *)
(* save_projects(P) returns False, a subsequent load_projects() returns the *)
(* same list it would have returned immediately before that save.           *)
C30_FailedSaveKeepsData ==
    [][(last'.op = "save" /\ last'.ret = PBool(FALSE))
          => load_projects(file', "none").ret = load_projects(file, "none").ret]_vars

\* what does hold: a save that fails before the file is open for writing
\* leaves the file as it was; one that fails later leaves no JSON document
FailedSaveLeavesFileOrGarbage ==
    (last.op = "save" /\ last.ret = PBool(FALSE))
        => IF last.fault = "open" THEN file = last.preFile
           ELSE file = FileCorrupt

-----------------------------------------------------------------------------
(* The Record Store as a whole: a caller that edits its list, asks for ids, *)
(* saves and loads                                                          *)

NextFrame ==
    \/ \E fault \in SessionFaults : Save(fault)
    \/ \E fault \in LoadFaults : Load(fault)
    \/ AddScenarioProject(0)
    \/ \E u \in Updates : UpdateProject(Txt("p1"), u)
    \/ DeleteProject(Txt("p1"))
    \/ GetProjectById(Txt("p1"))
    \/ GenerateProjectId
    \/ GenerateSubtaskId

SpecFrame == InitStore /\ [][NextFrame]_vars

(* C23: save is the only Record Store operation that changes the backing    *)
(* file: get_project_by_id, update_project, add_project, delete_project,    *)
(* generate_project_id and generate_subtask_id leave the file's content     *)
(* unchanged, and load_projects never modifies it.                          *)
C23_OnlySaveWritesFile ==
    [][last'.op \in {"get", "update", "add", "delete", "load",
                     "generate_project_id", "generate_subtask_id"}
          => file' = file]_vars

\* a deletion in memory while the file still holds the project; a load of
\* a file that holds no JSON document, which is still there afterwards
C23_Witness ==
    /\ last.op = "delete"
    /\ file.kind = "json" /\ Len(file.doc.v) > Len(projects.v)

C23_WitnessLoad ==
    /\ last.op = "load" /\ last.preFile = FileCorrupt /\ file = FileCorrupt

-----------------------------------------------------------------------------
(* move_subtask_to_position and delete_subtask called with any project id   *)
(* and any index, on the session of the default projects                    *)

\* indices below, inside and above the rows of a default project
Indices == {-1, 0, 1, 2, 3}

MoveSubtaskCall(project_id, from_idx, to_idx, fault) ==
    /\ projects' = move_subtask_to_position(projects, project_id,
                                            from_idx, to_idx)
    /\ file' = Saved(projects', file, fault)
    /\ last' = [op |-> "move_call", id |-> project_id, from_idx |-> from_idx,
                to_idx |-> to_idx, pre |-> projects]
    /\ UNCHANGED <<clock, prev>>

DeleteSubtaskCall(project_id, sub_idx, fault) ==
    /\ projects' = delete_subtask(projects, project_id, sub_idx)
    /\ file' = Saved(projects', file, fault)
    /\ last' = [op |-> "delete_call", id |-> project_id, sub_idx |-> sub_idx,
                pre |-> projects]
    /\ UNCHANGED <<clock, prev>>

NextCalls ==
    \/ \E fault \in SessionFaults : TrackerToggle(Txt("proj_002"), fault)
    \/ \E from_idx, to_idx \in Indices, fault \in SessionFaults :
          MoveSubtaskCall(Txt("proj_002"), from_idx, to_idx, fault)
    \/ \E fault \in SessionFaults :
          MoveSubtaskCall(Txt("proj_404"), 0, 1, fault)
    \/ \E sub_idx \in Indices, fault \in SessionFaults :
          DeleteSubtaskCall(Txt("proj_002"), sub_idx, fault)
    \/ \E fault \in SessionFaults :
          DeleteSubtaskCall(Txt("proj_404"), 0, fault)

SpecCalls == InitSession /\ [][NextCalls]_vars

-----------------------------------------------------------------------------
(* Claims about moving and deleting subtasks, checked under SpecCalls *)

\* the position in last.pre of the project the call was given, 0 if none
Target == ProjectIndex(last.pre, last.id)

\* every project but the one at position i is what it was before the call
OthersUntouched(i) ==
    /\ Len(projects.v) = Len(last.pre.v)
    /\ \A j \in 1..Len(projects.v) : j # i => projects.v[j] = last.pre.v[j]

\* the index names a row of the subtask list old
InRange(idx, old) == 0 <= idx /\ idx < Len(old)

\* the sequence s without its k-th element
Without(s, k) == [n \in 1..(Len(s) - 1) |-> IF n < k THEN s[n] ELSE s[n + 1]]

(* C28: move_subtask_to_position(project_id, from_idx, to_idx) with both    *)
(* indices in range yields a permutation of the project's subtasks in which *)
(* the moved subtask sits at index to_idx and all other subtasks keep their *)
(* relative order; with either index out of range, or an unknown project    *)
(* id, the subtask list is unchanged; in all cases no subtask is added,     *)
(* lost or altered and completion_percentage is unchanged.                  *)
C28_MoveSubtaskToPosition ==
    last.op = "move_call" =>
        /\ OthersUntouched(Target)
        /\ Target = 0 => projects = last.pre
        /\ Target # 0 =>
              LET old == SubtasksOf(last.pre.v[Target]).v
                  new == SubtasksOf(projects.v[Target]).v
              IN  /\ \A k \in DOMAIN projects.v[Target].v \ {"subtasks"} :
                        projects.v[Target].v[k] = last.pre.v[Target].v[k]
                  /\ DOMAIN projects.v[Target].v = DOMAIN last.pre.v[Target].v
                  /\ IF InRange(last.from_idx, old) /\ InRange(last.to_idx, old)
                     THEN /\ Len(new) = Len(old)
                          /\ new[last.to_idx + 1] = old[last.from_idx + 1]
                          /\ Without(new, last.to_idx + 1)
                                = Without(old, last.from_idx + 1)
                     ELSE new = old

\* the last of three subtasks moved to the front, past two others
C28_Witness ==
    /\ last.op = "move_call" /\ last.id = Txt("proj_002")
    /\ last.from_idx = 2 /\ last.to_idx = 0
    /\ Len(SubtasksOf(projects.v[2]).v) = 3
    /\ DictGet(SubtasksOf(projects.v[2]).v[1], "id") = Txt("task_002_3")
    /\ DictGet(SubtasksOf(projects.v[2]).v[2], "id") = Txt("task_002_1")
    /\ DictGet(projects.v[2], "completion_percentage") = PInt(33)

C28_WitnessOutOfRange ==
    /\ last.op = "move_call" /\ last.id = Txt("proj_002")
    /\ last.from_idx = 0 /\ last.to_idx = 3
    /\ Len(SubtasksOf(projects.v[2]).v) = 3

C28_WitnessUnknownId ==
    /\ last.op = "move_call" /\ last.id = Txt("proj_404")
    /\ last.from_idx = 0 /\ last.to_idx = 1

(* C29: delete_subtask(project_id, sub_idx) with sub_idx in range removes   *)
(* exactly the subtask at that index, keeps the others in order, and sets   *)
(* completion_percentage to int(100 * completed / remaining) or to 0 when   *)
(* no subtask remains; with sub_idx out of range or an unknown project id   *)
(* it changes no project; subtasks of other projects are never affected.    *)
C29_DeleteSubtask ==
    last.op = "delete_call" =>
        /\ OthersUntouched(Target)
        /\ Target = 0 => projects = last.pre
        /\ Target # 0 =>
              LET old == SubtasksOf(last.pre.v[Target]).v
                  new == SubtasksOf(projects.v[Target]).v
                  completed == Cardinality({k \in 1..Len(new) :
                                   DictGet(new[k], "completed") = PBool(TRUE)})
              IN  IF InRange(last.sub_idx, old)
                  THEN /\ new = Without(old, last.sub_idx + 1)
                       /\ DictGet(projects.v[Target], "completion_percentage")
                             = IF Len(new) = 0 THEN PInt(0)
                               ELSE PInt((100 * completed) \div Len(new))
                       /\ \A k \in DOMAIN last.pre.v[Target].v
                                    \ {"subtasks", "completion_percentage"} :
                             projects.v[Target].v[k] = last.pre.v[Target].v[k]
                  ELSE projects.v[Target] = last.pre.v[Target]

\* the open subtask of three deleted: 2 of 3 becomes 2 of 2
C29_Witness ==
    /\ last.op = "delete_call" /\ last.id = Txt("proj_002")
    /\ last.sub_idx = 1
    /\ DictGet(last.pre.v[2], "completion_percentage") = PInt(66)
    /\ DictGet(projects.v[2], "completion_percentage") = PInt(100)
    /\ Len(SubtasksOf(projects.v[2]).v) = 2

C29_WitnessLastOne ==
    /\ last.op = "delete_call" /\ last.id = Txt("proj_002")
    /\ Len(SubtasksOf(last.pre.v[2]).v) = 1
    /\ SubtasksOf(projects.v[2]).v = <<>>
    /\ DictGet(last.pre.v[2], "completion_percentage") = PInt(100)
    /\ DictGet(projects.v[2], "completion_percentage") = PInt(0)

C29_WitnessOutOfRange ==
    /\ last.op = "delete_call" /\ last.id = Txt("proj_002")
    /\ last.sub_idx = -1
    /\ Len(SubtasksOf(projects.v[2]).v) = 3

-----------------------------------------------------------------------------
(* Two browser sessions on one backing file.  Here projects maps each       *)
(* session to its st.session_state.projects                                 *)

Sessions == {"A", "B"}

\* 'projects' not in st.session_state
NotInSessionState == [t |-> "absent"]

\* load_projects() of app.py for a session whose state is session: the list
\* it returns and the file it leaves
app_load_projects(session, f, load_fault, fault) ==
    IF session # NotInSessionState THEN [projects |-> session, file |-> f]
    ELSE LET loaded == load_projects(f, load_fault).ret
         IN  IF Truthy(loaded) THEN [projects |-> loaded, file |-> f]
             ELSE [projects |-> get_default_projects,
                   file |-> Saved(get_default_projects, f, fault)]

\* the status a user of a second session picks
SessionStatusOptions == {Txt("In Progress")}

SessionEditIds == {Txt("proj_001"), Txt("proj_002")}

InitSessions ==
    /\ file = FileAbsent
    /\ projects = [s \in Sessions |-> NotInSessionState]
    /\ clock = 0
    /\ last = [op |-> "init"]
    /\ prev = [op |-> "init"]

\* a user opens the application in a browser
OpenSession(s, load_fault, fault) ==
    LET r == app_load_projects(projects[s], file, load_fault, fault)
    IN  /\ projects[s] = NotInSessionState
        /\ projects' = [projects EXCEPT ![s] = r.projects]
        /\ file' = r.file
        /\ last' = [op |-> "open_session", session |-> s]
        /\ UNCHANGED <<clock, prev>>

\* the user of session s sets the sidebar's status selectbox of a project
SessionSelectStatus(s, project_id, new_status, fault) ==
    /\ projects[s] # NotInSessionState
    /\ ProjectIndex(projects[s], project_id) # 0
    /\ new_status # DictGet(projects[s].v[ProjectIndex(projects[s], project_id)],
                            "status")
    /\ LET edited == update_project_field(projects[s], project_id, "status",
                                          new_status, clock)
           r == save_projects(edited, file, fault)
       IN  /\ projects' = [projects EXCEPT ![s] = edited]
           /\ file' = Saved(edited, file, fault)
           /\ last' = [op |-> "session_update", session |-> s,
                       id |-> project_id, fault |-> fault, preFile |-> file,
                       pre_session |-> projects[s],
                       saved |-> r.ret, raised |-> r.raised]
    /\ UNCHANGED <<clock, prev>>

NextSessions ==
    \/ \E s \in Sessions, load_fault \in LoadFaults, fault \in SessionFaults :
          OpenSession(s, load_fault, fault)
    \/ \E s \in Sessions, project_id \in SessionEditIds,
             new_status \in SessionStatusOptions, fault \in SessionFaults :
          SessionSelectStatus(s, project_id, new_status, fault)

SpecSessions == InitSessions /\ [][NextSessions]_vars

\* the status the document of the file f holds for the project project_id
StatusInFile(f, project_id) ==
    DictGet(f.doc.v[ProjectIndex(f.doc, project_id)], "status")

(* C22: across two sessions sharing one backing file there is no conflict   *)
(* detection and the last writer wins: when both have initialised their     *)
(* list from the file, A saves a change, and B then saves a change to a     *)
(* different project from its own stale list, the file afterwards equals    *)
(* B's list and A's change is absent; B's save succeeds without any error   *)
(* or warning.                                                              *)
C22_LastWriterWins ==
    (/\ last.op = "session_update" /\ last.fault = "none"
     /\ \A s \in Sessions : projects[s] # NotInSessionState)
        => /\ last.saved = PBool(TRUE) /\ last.raised = "none"
           /\ file = FileJson(_serialize_dates(projects[last.session]))
           /\ \A project_id \in SessionEditIds \ {last.id} :
                 StatusInFile(file, project_id)
                    = DictGet(last.pre_session.v[
                          ProjectIndex(last.pre_session, project_id)], "status")

\* A's change to proj_001 was in the file; B, whose list never had it, saved
\* its change to proj_002: the file has B's change and no longer A's
C22_Witness ==
    /\ last.op = "session_update" /\ last.session = "B"
    /\ last.id = Txt("proj_002") /\ last.saved = PBool(TRUE)
    /\ last.preFile.kind = "json"
    /\ StatusInFile(last.preFile, Txt("proj_001")) = Txt("In Progress")
    /\ projects["A"] # NotInSessionState
    /\ last.preFile = FileJson(_serialize_dates(projects["A"]))
    /\ StatusInFile(file, Txt("proj_001")) = Txt("Not Started")
    /\ StatusInFile(file, Txt("proj_002")) = Txt("In Progress")

-----------------------------------------------------------------------------
(* A session that uses every mutation of src/app.py, the settings page's    *)
(* import included                                                          *)

\* a list of one record that has none of a project's fields
UntitledDoc == PList(<<PDict([title |-> Txt("untitled")])>>)

\* what the user uploads: JSON documents, or bytes json.load refuses
UploadedFiles == {FileJson(ExternalDoc), FileJson(UntitledDoc), FileCorrupt}

\* st.session_state.projects = imported_data, appended to the list instead
imported_appended(ps, imported_data) == PList(ps.v \o imported_data.v)

\* st.session_state.projects = imported_data
imported(ps, imported_data) == imported_data

\* the date the "Due" date_input of a row shows for the subtask
ShownSubtaskDueDate(subtask) ==
    LET due_date == DictGet(subtask, "due_date")
    IN  IF due_date.t = "str"
        THEN (IF fromisoformat(due_date.v).ok
              THEN DateOf(fromisoformat(due_date.v).val)
              ELSE PDate(2026, 3, 31))
        ELSE IF due_date.t = "datetime" THEN DateOf(due_date)
        ELSE IF Truthy(due_date) THEN due_date
        ELSE PDate(2026, 3, 31)

\* the "Due" date_input of the first row, set to another day:
\* update_subtask_field and its save
EditSubtaskDueDate(project_id, new_due, fault) ==
    /\ 0 \in Rows(project_id)
    /\ new_due # ShownSubtaskDueDate(SubtasksOf(Found(project_id)).v[1])
    /\ projects' = update_subtask_field(projects, project_id, 0, "due_date",
                                        new_due, clock)
    /\ file' = Saved(projects', file, fault)
    /\ last' = [op |-> "update_subtask_field", id |-> project_id,
                saved |-> SaveReturns(projects', file, fault)]
    /\ UNCHANGED <<clock, prev>>

\* the settings page with an uploaded file: json.load in a try, and the
\* "Import Data" button when it parsed
ImportData(uploaded_file, fault) ==
    /\ IF uploaded_file.kind = "json"
       THEN /\ projects' = imported(projects, uploaded_file.doc)
            /\ file' = Saved(projects', file, fault)
       ELSE UNCHANGED <<projects, file>>
    /\ last' = [op |-> "import", uploaded_file |-> uploaded_file,
                fault |-> fault, pre |-> projects, preFile |-> file,
                saved |-> IF uploaded_file.kind = "json"
                          THEN SaveReturns(projects', file, fault)
                          ELSE PBool(FALSE)]
    /\ UNCHANGED <<clock, prev>>

NextMutations ==
    \/ \E project_id \in SessionProjectIds, new_status \in SessionStatusOptions,
             fault \in SessionFaults :
          SelectStatus(project_id, new_status, fault)
    \/ \E project_id \in SessionProjectIds, new_due \in DueInputs,
             fault \in SessionFaults :
          EditSubtaskDueDate(project_id, new_due, fault)
    \/ \E project_id \in SessionProjectIds, fault \in SessionFaults :
          RecalculateCompletion(project_id, fault)
    \/ \E project_id \in SessionProjectIds, fault \in SessionFaults :
          AddNewSubtask(project_id, fault)
    \/ \E project_id \in SessionProjectIds, fault \in SessionFaults :
          DeleteSubtask(project_id, fault)
    \/ \E project_id \in SessionProjectIds, fault \in SessionFaults :
          MoveSubtaskToPosition(project_id, fault)
    \/ \E project_id \in SessionProjectIds, note_text \in NoteTexts,
             fault \in SessionFaults :
          AddNote(project_id, note_text, fault)
    \/ \E uploaded_file \in UploadedFiles, fault \in SessionFaults :
          ImportData(uploaded_file, fault)

SpecMutations == InitSession /\ [][NextMutations]_vars

-----------------------------------------------------------------------------
(* Claims about what a mutation persists, checked under SpecMutations *)

\* update_project_field (the status selectbox), update_subtask_field,
\* recalculate_completion, add_new_subtask, delete_subtask,
\* move_subtask_to_position, add_note_to_project, and the import
MutationOps ==
    {"select_status", "update_subtask_field", "recalculate_completion",
     "add_new_subtask", "delete_subtask", "move_subtask_to_position",
     "add_note_to_project", "import"}

(* C21: every mutation is persisted as a whole-list write: after any of     *)
(* update_project_field, update_subtask_field, recalculate_completion,      *)
(* add_new_subtask, delete_subtask, move_subtask_to_position,               *)
(* add_note_to_project or a data import returns with a successful save, the *)
(* backing file holds the serialization of the entire current session       *)
(* project list, so that a fresh load yields the same projects as the       *)
(* session holds.                                                           *)
C21_MutationPersistsWholeList ==
    (last.op \in MutationOps /\ last.saved = PBool(TRUE))
        => /\ file = FileJson(_serialize_dates(projects))
           /\ load_projects(file, "none").ret = projects

\* what does hold: the file is the serialization of the whole session list,
\* and a fresh load yields the session's projects with every value under a
\* date key cut to its calendar day
MutationWritesWholeList ==
    (last.op \in MutationOps /\ last.saved = PBool(TRUE))
        => /\ file = FileJson(_serialize_dates(projects))
           /\ load_projects(file, "none").ret = CalendarView(projects)

-----------------------------------------------------------------------------
(* The settings page's import, in a session that has edits and a note *)

NextImport ==
    \/ \E project_id \in SessionProjectIds, new_status \in StatusOptions,
             fault \in SessionFaults :
          SelectStatus(project_id, new_status, fault)
    \/ \E project_id \in SessionProjectIds, note_text \in NoteTexts,
             fault \in SessionFaults :
          AddNote(project_id, note_text, fault)
    \/ \E uploaded_file \in UploadedFiles, fault \in SessionFaults :
          ImportData(uploaded_file, fault)

SpecImport == InitSession /\ [][NextImport]_vars

(* C24: importing a file replaces the whole in-memory project list with the *)
(* parsed contents of the uploaded file (nothing of the previous list       *)
(* remains, no field or type validation is applied) and the replaced list   *)
(* is written to the backing file; a file that fails to parse leaves the    *)
(* in-memory list and the backing file unchanged.                           *)
C24_ImportReplacesList ==
    last.op = "import" =>
        IF last.uploaded_file.kind = "json"
        THEN /\ projects = last.uploaded_file.doc
             /\ last.fault = "none" => file = FileJson(last.uploaded_file.doc)
        ELSE projects = last.pre /\ file = last.preFile

\* the edited defaults replaced by one record without any project field,
\* which is what the file now holds
C24_Witness ==
    /\ last.op = "import"
    /\ Len(last.pre.v) = 2
    /\ DictGet(last.pre.v[2], "status") = Txt("In Progress")
    /\ projects = UntitledDoc
    /\ file = FileJson(UntitledDoc)

\* an upload that is no JSON document, in a session whose last save failed
C24_WitnessUnparsable ==
    /\ last.op = "import" /\ last.uploaded_file = FileCorrupt
    /\ Len(projects.v) = 2 /\ file = FileCorrupt

\* the strings of an imported file stay strings in the session
C24_WitnessNoDates ==
    /\ last.op = "import" /\ projects = ExternalDoc
    /\ DictGet(projects.v[1], "created_at").t = "str"

-----------------------------------------------------------------------------
(* The notes trail of a project: notes are added as time passes, the        *)
(* session is reloaded from the file, the sidebar displays the trail        *)

\* "Add Note" is pressed only on a project with fewer notes than this
MaxTrail == 2

\* the characters of ISO text in the order of their code points
IsoChars == <<"-", ".", "0", "1", "2", "3", "4", "5", "6", "7", "8", "9",
              ":", "T">>

Ord(c) == CHOOSE i \in 1..Len(IsoChars) : IsoChars[i] = c

\* s < t of two str of ISO text
RECURSIVE StrLess(_, _)
StrLess(s, t) ==
    IF t = <<>> THEN FALSE
    ELSE IF s = <<>> THEN TRUE
    ELSE IF s[1] # t[1] THEN Ord(s[1]) < Ord(t[1])
    ELSE StrLess(Tail(s), Tail(t))

\* Python has an order between the sort keys a and b: two str, or two
\* dates; a < b of a str and a date raises TypeError
Orderable(a, b) ==
    \/ a.t = "str" /\ b.t = "str"
    \/ a.t = "date" /\ b.t = "date"

\* a < b of two such sort keys
KeyLess(a, b) ==
    IF a.t = "str" THEN StrLess(a.v, b.v) ELSE DateLess(a, b)

\* p.get('notes', [])
NotesOf(p) == IF "notes" \in DOMAIN p.v THEN p.v["notes"] ELSE PList(<<>>)

\* lambda x: x.get('timestamp', '')
SortKey(note) ==
    IF "timestamp" \in DOMAIN note.v THEN note.v["timestamp"] ELSE PStr(<<>>)

\* sorted(notes, key=lambda x: x.get('timestamp', ''), reverse=True): the
\* greater key first, equal keys in the order of the list; a comparison of
\* two keys that have no order raises
sorted_notes(notes) ==
    LET n == Len(notes.v)
        key(i) == SortKey(notes.v[i])
    IN  IF \E i, j \in 1..n : ~Orderable(key(i), key(j))
        THEN [ret |-> PNone, raised |-> "TypeError"]
        ELSE LET place(i) ==
                     1 + Cardinality({j \in 1..n : KeyLess(key(i), key(j))})
                       + Cardinality({j \in 1..(i - 1) : key(j) = key(i)})
             IN  [ret |-> PList([k \in 1..n |->
                                   notes.v[CHOOSE i \in 1..n : place(i) = k]]),
                  raised |-> "none"]

\* the button pressed on a project with fewer notes than MaxTrail
AddNoteToTrail(project_id, note_text, fault) ==
    /\ ProjectIndex(projects, project_id) # 0
    /\ Len(NotesOf(Found(project_id)).v) < MaxTrail
    /\ AddNoteToProject(project_id, note_text, fault)

\* the sidebar renders the notes of the project
ShowNotes(project_id) ==
    /\ ProjectIndex(projects, project_id) # 0
    /\ Truthy(NotesOf(Found(project_id)))
    /\ LET r == sorted_notes(NotesOf(Found(project_id)))
       IN  last' = [op |-> "show_notes", id |-> project_id,
                    notes |-> NotesOf(Found(project_id)),
                    shown |-> r.ret, raised |-> r.raised]
    /\ UNCHANGED <<file, projects, clock, prev>>

NextNotes ==
    \/ Tick
    \/ \E project_id \in SessionProjectIds, note_text \in NoteTexts,
             fault \in SessionFaults :
          AddNoteToTrail(project_id, note_text, fault)
    \/ \E load_fault \in LoadFaults, fault \in SessionFaults :
          NewSession(load_fault, fault)
    \/ \E project_id \in SessionProjectIds : ShowNotes(project_id)

SpecNotes == InitSession /\ [][NextNotes]_vars

-----------------------------------------------------------------------------
(* Claims about the notes trail, checked under SpecNotes *)

\* the instant a stored timestamp names: of an ISO string the datetime it
\* spells, of a date its midnight
Instant(ts) ==
    IF ts.t = "str" THEN fromisoformat(ts.v).val
    ELSE PDateTime(ts.y, ts.m, ts.d, 0, 0, 0, 0)

\* the instant a is before the instant b
Before(a, b) ==
    \/ DateLess(a, b)
    \/ /\ DateOf(a) = DateOf(b)
       /\ LET sa == a.hh * 3600 + a.mm * 60 + a.ss
              sb == b.hh * 3600 + b.mm * 60 + b.ss
          IN  sa < sb \/ (sa = sb /\ a.us < b.us)

\* shown is a rearrangement of notes
Rearranged(notes, shown) ==
    /\ shown.t = "list" /\ Len(shown.v) = Len(notes.v)
    /\ \E f \in [1..Len(notes.v) -> 1..Len(notes.v)] :
          /\ \A i, j \in 1..Len(notes.v) : i # j => f[i] # f[j]
          /\ \A i \in 1..Len(notes.v) : shown.v[i] = notes.v[f[i]]

\* no note of shown comes before a newer one
NewestFirst(shown) ==
    \A k, l \in 1..Len(shown.v) :
        k < l => ~Before(Instant(SortKey(shown.v[k])),
                         Instant(SortKey(shown.v[l])))

\* the project worked on, before and after a step
WorkedBefore == projects.v[ProjectIndex(projects, last'.id)]
WorkedAfter == projects'.v[ProjectIndex(projects', last'.id)]

\* a step of add_note_to_project puts one note last and keeps the others
NoteAppended ==
    (last'.op = "add_note_to_project" /\ projects' # projects) =>
        /\ Len(NotesOf(WorkedAfter).v) = Len(NotesOf(WorkedBefore).v) + 1
        /\ SubSeq(NotesOf(WorkedAfter).v, 1, Len(NotesOf(WorkedBefore).v))
              = NotesOf(WorkedBefore).v

\* the display of the trail succeeds and shows every note, newest first
ShownNewestFirst ==
    last.op = "show_notes" =>
        /\ last.raised = "none"
        /\ Rearranged(last.notes, last.shown)
        /\ NewestFirst(last.shown)

(* C25: project notes are stored in append order (add_note_to_project puts  *)
(* the new note last and leaves existing notes unchanged) and are displayed *)
(* ordered by timestamp, newest first, after any sequence of note           *)
(* additions, saves and reloads of the store.                               *)
C25_NotesAppendedAndShownNewestFirst ==
    [][NoteAppended]_vars /\ []ShownNewestFirst

\* what does hold: notes are always appended; and the trail is displayed
\* newest first as long as every timestamp in it is still the string that
\* add_note_to_project wrote
NotesAppended == [][NoteAppended]_vars

ShownNewestFirstWhileStrings ==
    (/\ last.op = "show_notes"
     /\ \A i \in 1..Len(last.notes.v) : SortKey(last.notes.v[i]).t = "str")
        => /\ last.raised = "none"
           /\ Rearranged(last.notes, last.shown)
           /\ NewestFirst(last.shown)

=============================================================================
